---- MODULE Spec2Model ----
(***************************************************************************)
(* Model of pt_plugin_sync.  One specification for each part:              *)
(*   - Spec, SpecPair, SpecFormat, SpecLabel, SpecOrder: the diff and      *)
(*     update-summary engine of diffing.py and the summary it prints;      *)
(*   - SpecKeys: the same engine on records with and without keys;         *)
(*   - SpecTokens: the comparison of two version strings;                  *)
(*   - SpecUpdate: the release check of update_check.py;                   *)
(*   - SpecDaemon: the threads of daemon.py inside _perform_scan;          *)
(*   - SpecDebounce: the DebouncedRunner of daemon.py and its timers;      *)
(*   - SpecMenu: the scan workers and callbacks of menubar.py;             *)
(*   - SpecScan: one call of perform_scan on a reports folder;             *)
(*   - SpecShared: perform_scan of two machines on one shared folder;      *)
(*   - SpecSettings: the POST requests of settings_server.py;              *)
(*   - SpecStore: the report files written and pruned by reporting.py.     *)
(* Each specification moves its own variables and leaves the others as     *)
(* they are before that part has done anything.                            *)
(*                                                                         *)
(* Python values are represented as follows.                               *)
(*   - bundle ids, bundle names and machine names are TLA+ strings; the    *)
(*     Python value None in such a field is the string None.               *)
(*   - version strings are sequences of one-character strings, so that     *)
(*     tokenizing and label formatting work on the characters; the empty   *)
(*     sequence is the (falsy) empty string.  A version label that is      *)
(*     None is NoLabel.                                                    *)
(*   - a dict whose iteration order the code depends on (reports,          *)
(*     plugin_maps) is a sequence of [machine, ...] pairs in iteration     *)
(*     order; a dict used only by lookup is a function.                    *)
(*   - the iteration order of the set all_keys is an input of compute_diff *)
(*     (Python fixes no order for a set of strings).                       *)
(***************************************************************************)
EXTENDS Integers, Sequences, FiniteSets, TLC

VARIABLES
    \* the diff engine: loaded reports, position, diff, summary, printed text
    reports, pc, diff, summary, text,
    \* the comparison of two version strings
    left, right, order,
    \* the release check: installed version, latest release, answer
    current_release, latest_release, available,
    \* the daemon: scan lock, pending flag, each thread's place in _perform_scan,
    \* whether a trigger that found the lock held still waits for a cycle, the
    \* numbers of calls and of cycles,
    \* the cycles during which a trigger found the lock held
    scan_lock, pending, call, owed, triggers, cycles, met, reruns,
    \* the menu bar app: its fields, the reports folder of its config, the folders
    \* that hold report__latest.html, each scan worker's and each caller's place,
    \* the Open Report handler's place, whether a refused request still waits
    _scan_lock, _pending_scan, _last_summary, _last_update_count, _state, reports_path, report_html, worker, caller, opening, unserved,
    \* one perform_scan on a reports folder: config.machine_name, the files of the
    \* folder, the machines with a report in "old scans", the place in
    \* perform_scan, the loaded snapshot set, the returned ScanResult
    machine_name, files, archive, step, loaded, scan_result,
    \* the settings server: its _config, the config that load_config reads from
    \* the config file, the arguments on_save was called with, the number of
    \* POST requests handled and the last one
    _config, config_toml, _on_save, posts, post,
    \* the local report store: the files of the reports folder and of its
    \* "old scans" folder with their modification days, the day it is, the
    \* files moved or deleted so far
    reports_dir, old_scans, today, gone,
    \* the DebouncedRunner: the timer it holds (0 for None), the state of every
    \* Timer it has started, the number of bursts of triggers begun, the number
    \* of scheduled timers that cancel() stopped, whether cancel() was the last call
    _timer, timers, bursts, dropped, quiet,
    \* the reports folder that two machines share: the machines whose latest
    \* report it holds, the machines the stored diff and the stored summary
    \* list, each machine's place in perform_scan with the reports it loaded and
    \* the number of cycles it has begun
    shared_reports, shared_diff, shared_summary, scans

\* every part but the given one leaves its variables as they are
Untouched(part) ==
    /\ IF part = "engine" THEN TRUE
       ELSE UNCHANGED <<reports, pc, diff, summary, text>>
    /\ IF part = "token" THEN TRUE
       ELSE UNCHANGED <<left, right, order>>
    /\ IF part = "update" THEN TRUE
       ELSE UNCHANGED <<current_release, latest_release, available>>
    /\ IF part = "daemon" THEN TRUE
       ELSE UNCHANGED <<scan_lock, pending, call, owed, triggers, cycles,
                        met, reruns>>
    /\ IF part = "menu" THEN TRUE
       ELSE UNCHANGED <<_scan_lock, _pending_scan, _last_summary,
                        _last_update_count, _state, reports_path,
                        report_html, worker, caller, opening, unserved>>
    /\ IF part = "scan" THEN TRUE
       ELSE UNCHANGED <<machine_name, files, archive, step, loaded,
                        scan_result>>
    /\ IF part = "settings" THEN TRUE
       ELSE UNCHANGED <<_config, config_toml, _on_save, posts, post>>
    /\ IF part = "store" THEN TRUE
       ELSE UNCHANGED <<reports_dir, old_scans, today, gone>>
    /\ IF part = "debounce" THEN TRUE
       ELSE UNCHANGED <<_timer, timers, bursts, dropped, quiet>>
    /\ IF part = "shared" THEN TRUE
       ELSE UNCHANGED <<shared_reports, shared_diff, shared_summary, scans>>

vars ==
    <<reports, pc, diff, summary, text, left, right, order, current_release,
       latest_release, available, scan_lock, pending, call, owed, triggers,
       cycles, met, reruns, _scan_lock, _pending_scan, _last_summary,
       _last_update_count, _state, reports_path, report_html, worker, caller,
       opening, unserved, machine_name, files, archive, step, loaded,
       scan_result, _config, config_toml, _on_save, posts, post, reports_dir,
       old_scans, today, gone, _timer, timers, bursts, dropped, quiet,
       shared_reports, shared_diff, shared_summary, scans>>

(***************************************************************************)
(* Bounds of the model.                                                    *)
(***************************************************************************)
\* number of machines that publish a report
MaxMachines == 3
\* number of plugin records of all reports together
MaxRecords == 2
\* number of plugin records of one report, when two machines report
MaxPlugins == 2
\* number of Timer threads of the daemon's DebouncedRunner that run at once
MaxTimers == 2
\* number of calls of the daemon's scan_action
MaxTriggers == 3
\* number of scan worker threads of the menu bar app that live at once
MaxWorkers == 2
\* number of reports folders the settings of the menu bar app choose from
MaxFolders == 2
\* number of POST requests the settings server handles
MaxPosts == 2
\* number of days that pass over a reports folder
MaxDays == 2
\* number of timers one DebouncedRunner starts
MaxStarts == 4
\* number of scan cycles one machine runs on the shared folder
MaxScans == 2

(***************************************************************************)
(* Generic helpers.                                                        *)
(***************************************************************************)
None == "None"

NoLabel == <<None>>

Range(s) == {s[i] : i \in DOMAIN s}

\* all sequences without repetition whose elements are exactly those of S
Perms(S) == {s \in [1..Cardinality(S) -> S] : Range(s) = S}

\* a < b for the strings the model draws machine names and plugin keys from,
\* in the order Python's str comparison (code points) puts them
StrLess(a, b) ==
    LET StringOrder == <<"A", "B", "C", "D", "alpha", "beta">>
        StrRank(s) == CHOOSE i \in DOMAIN StringOrder : StringOrder[i] = s
    IN  StrRank(a) < StrRank(b)

\* sorted(S) for a set of strings
RECURSIVE Sorted(_)
Sorted(S) ==
    IF S = {} THEN <<>>
    ELSE LET least == CHOOSE x \in S : \A y \in S : ~StrLess(y, x)
         IN  <<least>> \o Sorted(S \ {least})

(***************************************************************************)
(* Version strings (diffing.py, _version_tokens / _version_label /         *)
(* _version_key).                                                          *)
(***************************************************************************)
Unknown == <<"u", "n", "k", "n", "o", "w", "n">>

Digits == <<"0", "1", "2", "3", "4", "5", "6", "7", "8", "9">>

Lowers == <<"a", "b", "c", "d", "e", "f", "g", "h", "i", "j", "k", "l", "m",
            "n", "o", "p", "q", "r", "s", "t", "u", "v", "w", "x", "y", "z">>

Uppers == <<"A", "B", "C", "D", "E", "F", "G", "H", "I", "J", "K", "L", "M",
            "N", "O", "P", "Q", "R", "S", "T", "U", "V", "W", "X", "Y", "Z">>

IndexOf(seq, c) == CHOOSE i \in DOMAIN seq : seq[i] = c

IsDigit(c) == c \in Range(Digits)

IsLetter(c) == c \in Range(Lowers) \/ c \in Range(Uppers)

\* token.lower()
LowerRun(run) ==
    [i \in DOMAIN run |->
        IF run[i] \in Range(Uppers) THEN Lowers[IndexOf(Uppers, run[i])] ELSE run[i]]

\* short_version or "unknown"
OrUnknown(v) == IF v = <<>> THEN Unknown ELSE v

NumToken(n) == [kind |-> 0, num |-> n, str |-> <<>>]

TextToken(s) == [kind |-> 1, num |-> 0, str |-> s]

\* length of the maximal run of characters satisfying the class of value[i]
RECURSIVE RunEnd(_, _, _)
RunEnd(value, i, digit) ==
    IF i > Len(value) THEN i - 1
    ELSE IF digit /\ IsDigit(value[i]) THEN RunEnd(value, i + 1, digit)
    ELSE IF ~digit /\ IsLetter(value[i]) THEN RunEnd(value, i + 1, digit)
    ELSE i - 1

\* int(token) of a run of digits
RECURSIVE IntOf(_)
IntOf(run) ==
    IF run = <<>> THEN 0
    ELSE 10 * IntOf(SubSeq(run, 1, Len(run) - 1)) + (IndexOf(Digits, run[Len(run)]) - 1)

\* re.findall(r"\d+|[A-Za-z]+", value), each match parsed to (0, int) or (1, lower)
RECURSIVE TokensFrom(_, _)
TokensFrom(value, i) ==
    IF i > Len(value) THEN <<>>
    ELSE IF IsDigit(value[i]) THEN
        LET e == RunEnd(value, i, TRUE)
        IN  <<NumToken(IntOf(SubSeq(value, i, e)))>> \o TokensFrom(value, e + 1)
    ELSE IF IsLetter(value[i]) THEN
        LET e == RunEnd(value, i, FALSE)
        IN  <<TextToken(LowerRun(SubSeq(value, i, e)))>> \o TokensFrom(value, e + 1)
    ELSE TokensFrom(value, i + 1)

_version_tokens(value) == TokensFrom(value, 1)

\* Python's str < str on lower-case letter strings
RECURSIVE TextLess(_, _)
TextLess(a, b) ==
    IF b = <<>> THEN FALSE
    ELSE IF a = <<>> THEN TRUE
    ELSE IF a[1] = b[1] THEN TextLess(Tail(a), Tail(b))
    ELSE IndexOf(Lowers, a[1]) < IndexOf(Lowers, b[1])

\* TokenLess with the kinds the other way round: a word before a number
TokenLess_TextFirst(a, b) ==
    IF a.kind /= b.kind THEN a.kind > b.kind
    ELSE IF a.kind = 0 THEN a.num < b.num
    ELSE TextLess(a.str, b.str)

\* Python's (kind, value) < (kind, value)
TokenLess(a, b) ==
    IF a.kind /= b.kind THEN a.kind < b.kind
    ELSE IF a.kind = 0 THEN a.num < b.num
    ELSE TextLess(a.str, b.str)

\* Python's tuple < tuple on token tuples
RECURSIVE TokensLess(_, _)
TokensLess(a, b) ==
    IF b = <<>> THEN FALSE
    ELSE IF a = <<>> THEN TRUE
    ELSE IF a[1] = b[1] THEN TokensLess(Tail(a), Tail(b))
    ELSE TokenLess(a[1], b[1])

\* _version_label without the test bundle_version == short_version
_version_label_AlwaysBoth(short_version, bundle_version) ==
    IF short_version = Unknown /\ bundle_version = Unknown THEN NoLabel
    ELSE IF short_version = Unknown THEN bundle_version
    ELSE IF bundle_version = Unknown THEN short_version
    ELSE short_version \o <<" ", "(">> \o bundle_version \o <<")">>

\* _version_label that drops the bundle version whenever the short one is known
_version_label_ShortOnly(short_version, bundle_version) ==
    IF short_version = Unknown /\ bundle_version = Unknown THEN NoLabel
    ELSE IF short_version = Unknown THEN bundle_version
    ELSE short_version

_version_label(short_version, bundle_version) ==
    IF short_version = Unknown /\ bundle_version = Unknown THEN NoLabel
    ELSE IF short_version = Unknown THEN bundle_version
    ELSE IF bundle_version = Unknown \/ short_version = bundle_version THEN short_version
    ELSE short_version \o <<" ", "(">> \o bundle_version \o <<")">>

\* None is [some |-> FALSE]
NoKey == [some |-> FALSE, tokens |-> <<>>]

\* _version_key without the final "return None"
_version_key_NeverNone(short_version, bundle_version) ==
    IF short_version /= Unknown THEN [some |-> TRUE, tokens |-> _version_tokens(short_version)]
    ELSE [some |-> TRUE, tokens |-> _version_tokens(bundle_version)]

_version_key(short_version, bundle_version) ==
    IF short_version /= Unknown THEN [some |-> TRUE, tokens |-> _version_tokens(short_version)]
    ELSE IF bundle_version /= Unknown THEN [some |-> TRUE, tokens |-> _version_tokens(bundle_version)]
    ELSE NoKey

(***************************************************************************)
(* The inputs: plugin records and reports.                                 *)
(***************************************************************************)
V1_0 == <<"1", ".", "0">>

V2_0 == <<"2", ".", "0">>

V1 == <<"1">>

V2 == <<"2">>

Plugin(name, id, short, bundle) ==
    [bundle_name |-> name, bundle_id |-> id, short_version |-> short, bundle_version |-> bundle]

\* the plugin records a scan may find
PluginRecords ==
    { Plugin("Alpha", "alpha", V1_0, V1),
      Plugin("Alpha", "alpha", V2_0, V2),
      Plugin("AlphaPro", "alpha", <<>>, Unknown),
      Plugin("beta", None, Unknown, <<"1", "0">>),
      Plugin("beta", None, Unknown, <<"9">>) }

MachineNames == <<"A", "B", "C", "D">>

\* list with x inserted so that it becomes element number pos
InsertAt(list, pos, x) == SubSeq(list, 1, pos - 1) \o <<x>> \o SubSeq(list, pos, Len(list))

RECURSIVE TotalPlugins(_, _)
TotalPlugins(reps, i) ==
    IF i > Len(reps) THEN 0 ELSE Len(reps[i].plugins) + TotalPlugins(reps, i + 1)

(***************************************************************************)
(* diffing.py, _plugin_map and compute_diff.                               *)
(***************************************************************************)
\* plugin.get("bundle_id") or plugin.get("bundle_name")
\* (None and "" are falsy)
PluginKey(plugin) ==
    IF plugin.bundle_id = None \/ plugin.bundle_id = "" THEN plugin.bundle_name
    ELSE plugin.bundle_id

RECURSIVE PluginMapFrom(_, _, _)
PluginMapFrom(plugins, i, mapping) ==
    IF i > Len(plugins) THEN mapping
    ELSE LET plugin == plugins[i]
             key == PluginKey(plugin)
         IN  IF key = None \/ key = "" THEN PluginMapFrom(plugins, i + 1, mapping)
             ELSE PluginMapFrom(plugins, i + 1,
                     [k \in DOMAIN mapping \cup {key} |-> IF k = key THEN plugin ELSE mapping[k]])

Reverse(list) == [i \in DOMAIN list |-> list[Len(list) + 1 - i]]

\* _plugin_map that keys by the bundle id alone, with no fallback to the name
_plugin_map_IdOnly(report) ==
    LET HasId(plugin) == plugin.bundle_id \notin {None, ""}
    IN  PluginMapFrom(SelectSeq(report.plugins, HasId), 1, <<>>)

\* _plugin_map that keeps the first record of a key (setdefault) instead of the last
_plugin_map_FirstWins(report) == PluginMapFrom(Reverse(report.plugins), 1, <<>>)

_plugin_map(report) == PluginMapFrom(report.plugins, 1, <<>>)

\* {machine: _plugin_map(report) for machine, report in reports.items()}
PluginMaps(reps) == [i \in DOMAIN reps |-> [machine |-> reps[i].machine, mapping |-> _plugin_map(reps[i])]]

\* sorted(reports.keys())
SortedMachines(reps) == Sorted({reps[i].machine : i \in DOMAIN reps})

AllKeys(plugin_maps) == UNION {DOMAIN plugin_maps[i].mapping : i \in DOMAIN plugin_maps}

\* plugin_maps.get(machine, {})
MappingOf(plugin_maps, machine) ==
    IF \E i \in DOMAIN plugin_maps : plugin_maps[i].machine = machine
    THEN plugin_maps[CHOOSE i \in DOMAIN plugin_maps : plugin_maps[i].machine = machine].mapping
    ELSE <<>>

\* next((m.get(key) for m in plugin_maps.values() if key in m), None)
RECURSIVE SampleFrom(_, _, _)
SampleFrom(plugin_maps, key, i) ==
    IF i > Len(plugin_maps) THEN Plugin(None, None, <<>>, <<>>)
    ELSE IF key \in DOMAIN plugin_maps[i].mapping THEN plugin_maps[i].mapping[key]
    ELSE SampleFrom(plugin_maps, key, i + 1)

SamplePlugin(plugin_maps, key) == SampleFrom(plugin_maps, key, 1)

\* KeyEntry with the bundle name in the place of the key
KeyEntry_NameAsKey(key, plugin) ==
    [key |-> plugin.bundle_name, bundle_name |-> plugin.bundle_name, bundle_id |-> plugin.bundle_id]

KeyEntry(key, plugin) == [key |-> key, bundle_name |-> plugin.bundle_name, bundle_id |-> plugin.bundle_id]

\* the loop "for key in all_keys" of one machine; key_order is the iteration
\* order of the set all_keys
RECURSIVE ScanKeys(_, _, _, _, _)
ScanKeys(plugin_maps, mapping, key_order, i, acc) ==
    IF i > Len(key_order) THEN acc
    ELSE LET key == key_order[i]
         IN  IF key \notin DOMAIN mapping
             THEN ScanKeys(plugin_maps, mapping, key_order, i + 1,
                     [acc EXCEPT !.missing = Append(@, KeyEntry(key, SamplePlugin(plugin_maps, key)))])
             ELSE LET plugin == mapping[key]
                      short_version == OrUnknown(plugin.short_version)
                      bundle_version == OrUnknown(plugin.bundle_version)
                  IN  IF short_version = Unknown /\ bundle_version = Unknown
                      THEN ScanKeys(plugin_maps, mapping, key_order, i + 1,
                              [acc EXCEPT !.unknown_count = @ + 1,
                                          !.unknown_versions = Append(@, KeyEntry(key, plugin))])
                      ELSE ScanKeys(plugin_maps, mapping, key_order, i + 1, acc)

\* MachineScan whose loop over all_keys misses one key
MachineScan_SkipFirst(plugin_maps, machine, key_order) ==
    ScanKeys(plugin_maps, MappingOf(plugin_maps, machine), key_order, 2,
             [missing |-> <<>>, unknown_versions |-> <<>>, unknown_count |-> 0])

MachineScan(plugin_maps, machine, key_order) ==
    ScanKeys(plugin_maps, MappingOf(plugin_maps, machine), key_order, 1,
             [missing |-> <<>>, unknown_versions |-> <<>>, unknown_count |-> 0])

VersionPair(plugin) ==
    [short_version |-> OrUnknown(plugin.short_version), bundle_version |-> OrUnknown(plugin.bundle_version)]

\* versions_by_machine of compute_diff that compares the short versions only
DiffVersionsByMachine_ShortOnly(plugin_maps, key) ==
    LET have == {plugin_maps[i].machine : i \in {j \in DOMAIN plugin_maps : key \in DOMAIN plugin_maps[j].mapping}}
    IN  [machine \in have |->
            [short_version |-> OrUnknown(MappingOf(plugin_maps, machine)[key].short_version),
             bundle_version |-> Unknown]]

\* versions_by_machine of compute_diff, for one key
DiffVersionsByMachine(plugin_maps, key) ==
    LET have == {plugin_maps[i].machine : i \in {j \in DOMAIN plugin_maps : key \in DOMAIN plugin_maps[j].mapping}}
    IN  [machine \in have |-> VersionPair(MappingOf(plugin_maps, machine)[key])]

\* the loop "for key in sorted(all_keys)" of compute_diff
RECURSIVE MismatchesFrom(_, _, _)
MismatchesFrom(plugin_maps, keys, i) ==
    IF i > Len(keys) THEN <<>>
    ELSE LET key == keys[i]
             versions_by_machine == DiffVersionsByMachine(plugin_maps, key)
             unique_versions == {versions_by_machine[m] : m \in DOMAIN versions_by_machine}
             rest == MismatchesFrom(plugin_maps, keys, i + 1)
         IN  IF Cardinality(DOMAIN versions_by_machine) <= 1 THEN rest
             ELSE IF Cardinality(unique_versions) > 1
             THEN <<[key |-> key,
                     bundle_name |-> SamplePlugin(plugin_maps, key).bundle_name,
                     bundle_id |-> SamplePlugin(plugin_maps, key).bundle_id,
                     versions |-> versions_by_machine]>> \o rest
             ELSE rest

compute_diff(reps, key_order) ==
    LET machines == SortedMachines(reps)
        plugin_maps == PluginMaps(reps)
        all_keys == AllKeys(plugin_maps)
        scan == [machine \in Range(machines) |-> MachineScan(plugin_maps, machine, key_order)]
    IN  [machines |-> machines,
         missing |-> [machine \in Range(machines) |-> scan[machine].missing],
         version_mismatches |-> MismatchesFrom(plugin_maps, Sorted(all_keys), 1),
         unknown_versions |-> [machine \in Range(machines) |-> scan[machine].unknown_versions],
         counts |-> [machine \in Range(machines) |->
                        [total |-> Cardinality(DOMAIN MappingOf(plugin_maps, machine)),
                         unknown_versions |-> scan[machine].unknown_count]]]

(***************************************************************************)
(* diffing.py, format_diff_summary.  The returned string is the sequence   *)
(* of its lines (the operands of "\n".join); a line is the sequence of the *)
(* literal and formatted pieces of its f-string.                           *)
(***************************************************************************)
\* the loop that appends one count line per machine
RECURSIVE CountLines(_, _, _)
CountLines(d, machines, i) ==
    IF i > Len(machines) THEN <<>>
    ELSE LET machine == machines[i]
             count == d.counts[machine]
         IN  << <<"- ", machine, ": ", ToString(count.total), " plugins, ",
                  ToString(count.unknown_versions), " unknown versions">> >>
             \o CountLines(d, machines, i + 1)

\* MissingLines without the test "if missing_list"
RECURSIVE MissingLines_All(_, _, _)
MissingLines_All(d, machines, i) ==
    IF i > Len(machines) THEN <<>>
    ELSE << <<"- Missing on ", machines[i], ": ", ToString(Len(d.missing[machines[i]]))>> >>
         \o MissingLines_All(d, machines, i + 1)

\* the loop that appends the "Missing on" lines
RECURSIVE MissingLines(_, _, _)
MissingLines(d, machines, i) ==
    IF i > Len(machines) THEN <<>>
    ELSE LET machine == machines[i]
             missing_list == d.missing[machine]
         IN  (IF missing_list /= <<>>
              THEN << <<"- Missing on ", machine, ": ", ToString(Len(missing_list))>> >>
              ELSE <<>>)
             \o MissingLines(d, machines, i + 1)

\* the loop that appends the "Unknown versions on" lines
RECURSIVE UnknownLines(_, _, _)
UnknownLines(d, machines, i) ==
    IF i > Len(machines) THEN <<>>
    ELSE LET machine == machines[i]
             unknown_list == d.unknown_versions[machine]
         IN  (IF unknown_list /= <<>>
              THEN << <<"- Unknown versions on ", machine, ": ", ToString(Len(unknown_list))>> >>
              ELSE <<>>)
             \o UnknownLines(d, machines, i + 1)

format_diff_summary(d) ==
    LET machines == d.machines
        mismatches == d.version_mismatches
    IN  IF machines = <<>> THEN << <<"No reports found.">> >>
        ELSE << <<"Plugin sync diff summary:">> >>
             \o CountLines(d, machines, 1)
             \o MissingLines(d, machines, 1)
             \o (IF mismatches /= <<>>
                 THEN << <<"- Version mismatches: ", ToString(Len(mismatches))>> >>
                 ELSE <<>>)
             \o UnknownLines(d, machines, 1)

(***************************************************************************)
(* diffing.py, compute_update_summary.                                     *)
(***************************************************************************)
\* versions_by_machine of compute_update_summary for one key: the machines
\* that have the key, in the iteration order of plugin_maps
RECURSIVE VersionsFrom(_, _, _)
VersionsFrom(plugin_maps, key, i) ==
    IF i > Len(plugin_maps) THEN <<>>
    ELSE IF key \notin DOMAIN plugin_maps[i].mapping THEN VersionsFrom(plugin_maps, key, i + 1)
    ELSE LET plugin == plugin_maps[i].mapping[key]
             short_version == OrUnknown(plugin.short_version)
             bundle_version == OrUnknown(plugin.bundle_version)
         IN  <<[machine |-> plugin_maps[i].machine,
                short_version |-> short_version,
                bundle_version |-> bundle_version,
                version_key |-> _version_key(short_version, bundle_version),
                label |-> _version_label(short_version, bundle_version)]>>
             \o VersionsFrom(plugin_maps, key, i + 1)

\* the comparison of the best-version loop, reversed
KeyGreater_Reversed(key_value, best_key) == TokensLess(key_value.tokens, best_key.tokens)

\* key_value > best_key on version keys that are not None
KeyGreater(key_value, best_key) == TokensLess(best_key.tokens, key_value.tokens)

\* the loop "for machine, data in versions_by_machine.items()" that picks the best
RECURSIVE BestFrom(_, _, _)
BestFrom(versions_by_machine, i, best) ==
    IF i > Len(versions_by_machine) THEN best
    ELSE LET data == versions_by_machine[i]
             key_value == data.version_key
         IN  IF ~key_value.some THEN BestFrom(versions_by_machine, i + 1, best)
             ELSE IF ~best.best_key.some \/ KeyGreater(key_value, best.best_key)
             THEN BestFrom(versions_by_machine, i + 1,
                     [best_machine |-> data.machine, best_key |-> key_value])
             ELSE BestFrom(versions_by_machine, i + 1, best)

\* the best-version loop without its comparison: the last known version wins
Best_LastKnown(versions_by_machine) ==
    LET known == {i \in DOMAIN versions_by_machine : versions_by_machine[i].version_key.some}
        last == CHOOSE i \in known : \A j \in known : j <= i
    IN  IF known = {} THEN [best_machine |-> None, best_key |-> NoKey]
        ELSE [best_machine |-> versions_by_machine[last].machine,
              best_key |-> versions_by_machine[last].version_key]

Best(versions_by_machine) ==
    BestFrom(versions_by_machine, 1, [best_machine |-> None, best_key |-> NoKey])

\* versions_by_machine[machine] / versions_by_machine.get(machine)
DataOf(versions_by_machine, machine) ==
    versions_by_machine[CHOOSE i \in DOMAIN versions_by_machine : versions_by_machine[i].machine = machine]

BestVersion(versions_by_machine, best) ==
    IF best.best_machine /= None THEN DataOf(versions_by_machine, best.best_machine).label
    ELSE NoLabel

UpdateEntry(key, sample, current, latest, best_machine, reason) ==
    [key |-> key, bundle_name |-> sample.bundle_name, bundle_id |-> sample.bundle_id,
     current_version |-> current, latest_version |-> latest,
     best_machine |-> best_machine, reason |-> reason]

\* what compute_update_summary works out for one key before its loops over the
\* machines: sample_plugin, versions_by_machine, best_machine / best_key and
\* best_version
KeyContext(plugin_maps, key) ==
    LET versions_by_machine == VersionsFrom(plugin_maps, key, 1)
        best == Best(versions_by_machine)
    IN  [key |-> key,
         sample |-> SamplePlugin(plugin_maps, key),
         versions_by_machine |-> versions_by_machine,
         best_machine |-> best.best_machine,
         best_key |-> best.best_key,
         best_version |-> BestVersion(versions_by_machine, best)]

\* the first loop "for machine in machines" of one key: the entries it appends
\* to updates_by_machine
RECURSIVE EmitFrom(_, _, _, _, _)
EmitFrom(plugin_maps, machines, ctx, i, updates_by_machine) ==
    IF i > Len(machines) THEN updates_by_machine
    ELSE LET machine == machines[i]
             mapping == MappingOf(plugin_maps, machine)
             data == DataOf(ctx.versions_by_machine, machine)
             add(current, reason) ==
                 EmitFrom(plugin_maps, machines, ctx, i + 1,
                     [updates_by_machine EXCEPT ![machine] =
                         Append(@, UpdateEntry(ctx.key, ctx.sample, current, ctx.best_version,
                                               ctx.best_machine, reason))])
         IN  IF ctx.key \notin DOMAIN mapping THEN add(NoLabel, "missing")
             ELSE IF ~data.version_key.some THEN add(data.label, "unknown_version")
             ELSE IF ctx.best_key.some /\ TokensLess(data.version_key.tokens, ctx.best_key.tokens)
             THEN add(data.label, "outdated")
             ELSE EmitFrom(plugin_maps, machines, ctx, i + 1, updates_by_machine)

\* AppendMatching with entry["machines"].insert(0, ...)
RECURSIVE AppendMatching_Prepend(_, _, _, _)
AppendMatching_Prepend(list, machine, matching, i) ==
    IF i > Len(matching) THEN list
    ELSE AppendMatching_Prepend(
            <<[machine |-> machine,
               current_version |-> matching[i].current_version,
               reason |-> matching[i].reason]>> \o list,
            machine, matching, i + 1)

\* entry["machines"].append(...) for update in matching
RECURSIVE AppendMatching(_, _, _, _)
AppendMatching(list, machine, matching, i) ==
    IF i > Len(matching) THEN list
    ELSE AppendMatching(
            Append(list, [machine |-> machine,
                          current_version |-> matching[i].current_version,
                          reason |-> matching[i].reason]),
            machine, matching, i + 1)

\* the second loop "for machine in machines" of one key: updates_by_plugin
RECURSIVE AggregateFrom(_, _, _, _, _)
AggregateFrom(machines, ctx, i, updates_by_machine, updates_by_plugin) ==
    IF i > Len(machines) THEN updates_by_plugin
    ELSE LET machine == machines[i]
             machine_updates == updates_by_machine[machine]
             IsMatch(update) == update.key = ctx.key
             matching == SelectSeq(machine_updates, IsMatch)
             \* updates_by_plugin.setdefault(key, {...})
             entry == IF ctx.key \in DOMAIN updates_by_plugin THEN updates_by_plugin[ctx.key]
                      ELSE [bundle_name |-> ctx.sample.bundle_name,
                            bundle_id |-> ctx.sample.bundle_id,
                            latest_version |-> ctx.best_version,
                            best_machine |-> ctx.best_machine,
                            machines |-> <<>>]
             updated == [entry EXCEPT !.machines = AppendMatching(@, machine, matching, 1)]
         IN  IF machine_updates = <<>> \/ matching = <<>>
             THEN AggregateFrom(machines, ctx, i + 1, updates_by_machine, updates_by_plugin)
             ELSE AggregateFrom(machines, ctx, i + 1, updates_by_machine,
                     [k \in DOMAIN updates_by_plugin \cup {ctx.key} |->
                         IF k = ctx.key THEN updated ELSE updates_by_plugin[k]])

\* the loop "for key in sorted(all_keys)" of compute_update_summary
RECURSIVE SummaryFrom(_, _, _, _, _)
SummaryFrom(plugin_maps, machines, keys, i, acc) ==
    IF i > Len(keys) THEN acc
    ELSE LET ctx == KeyContext(plugin_maps, keys[i])
             by_machine == EmitFrom(plugin_maps, machines, ctx, 1, acc.updates_by_machine)
             by_plugin == AggregateFrom(machines, ctx, 1, by_machine, acc.updates_by_plugin)
         IN  SummaryFrom(plugin_maps, machines, keys, i + 1,
                 [updates_by_machine |-> by_machine, updates_by_plugin |-> by_plugin])

\* compute_update_summary with "for key in reversed(sorted(all_keys))"
compute_update_summary_KeysDescending(reps) ==
    LET machines == SortedMachines(reps)
        plugin_maps == PluginMaps(reps)
        all_keys == AllKeys(plugin_maps)
        result == SummaryFrom(plugin_maps, machines, Reverse(Sorted(all_keys)), 1,
                      [updates_by_machine |-> [machine \in Range(machines) |-> <<>>],
                       updates_by_plugin |-> <<>>])
    IN  [machines |-> machines,
         updates_by_machine |-> result.updates_by_machine,
         updates_by_plugin |-> result.updates_by_plugin]

compute_update_summary(reps) ==
    LET machines == SortedMachines(reps)
        plugin_maps == PluginMaps(reps)
        all_keys == AllKeys(plugin_maps)
        result == SummaryFrom(plugin_maps, machines, Sorted(all_keys), 1,
                      [updates_by_machine |-> [machine \in Range(machines) |-> <<>>],
                       updates_by_plugin |-> <<>>])
    IN  [machines |-> machines,
         updates_by_machine |-> result.updates_by_machine,
         updates_by_plugin |-> result.updates_by_plugin]

(***************************************************************************)
(* The calls of compute_diff and compute_update_summary on one loaded set  *)
(* of reports (cli.py, scan_cycle.py).                                     *)
(***************************************************************************)
NoResult == [none |-> TRUE]

(***************************************************************************)
(* Each part of the program before it has done anything.                   *)
(***************************************************************************)
\* the threads of the daemon that call scan_action: 0 is the main thread (the
\* initial scan and the periodic loop), the others are Timer threads of the
\* DebouncedRunner
Threads == 0..MaxTimers

\* the slots of the scan worker threads
Workers == 1..MaxWorkers

\* the reports folders a config may name
Folders == 1..MaxFolders

\* the threads that call _on_scan from outside a worker: the main thread (the
\* rumps timer and Scan Now) and the Timer thread of the DebouncedRunner
Callers == {"ui", "fs"}

NoThread == [at |-> "none", dir |-> 0]

\* the config the settings server is made with, as the config file holds it
StartConfig ==
    [machine_name |-> "Studio", plugins_path |-> "/plugins", reports_backend |-> "local",
     dropbox_app_key |-> None, dropbox_reports_path |-> None,
     scan_interval_seconds |-> 3600]

\* the machines that scan into one shared reports folder
ScanMachines == {"A", "B"}

Parts ==
    {"engine", "token", "update", "daemon", "menu", "scan", "settings",
      "store", "debounce", "shared"}

\* the variables of the given parts as they are before the part has run
Idle(parts) ==
    \* the diff engine has loaded nothing
    /\ IF "engine" \in parts
       THEN /\ reports = <<>>
            /\ pc = "idle"
            /\ diff = NoResult
            /\ summary = NoResult
            /\ text = NoResult
       ELSE TRUE
    \* the version comparison has no inputs
    /\ IF "token" \in parts
       THEN /\ left = <<>>
            /\ right = <<>>
            /\ order = NoResult
       ELSE TRUE
    \* the release check has no inputs
    /\ IF "update" \in parts
       THEN /\ current_release = <<>>
            /\ latest_release = <<>>
            /\ available = NoResult
       ELSE TRUE
    \* the daemon after run_daemon has made the lock and the pending dict
    /\ IF "daemon" \in parts
       THEN /\ scan_lock = FALSE
            /\ pending = FALSE
            /\ call = [t \in Threads |-> "idle"]
            /\ owed = FALSE
            /\ triggers = 0
            /\ cycles = 0
            /\ met = {}
            /\ reruns = 0
       ELSE TRUE
    \* the menu bar app after MenuBarApp.__init__
    /\ IF "menu" \in parts
       THEN /\ _scan_lock = FALSE
            /\ _pending_scan = FALSE
            /\ _last_summary = FALSE
            /\ _last_update_count = 0
            /\ _state = "idle"
            /\ reports_path = 1
            /\ report_html = {}
            /\ worker = [w \in Workers |-> NoThread]
            /\ caller = [c \in Callers |-> "idle"]
            /\ opening = NoThread
            /\ unserved = FALSE
       ELSE TRUE
    \* no perform_scan is called
    /\ IF "scan" \in parts
       THEN /\ machine_name = <<>>
            /\ files = <<>>
            /\ archive = {}
            /\ step = "idle"
            /\ loaded = {}
            /\ scan_result = NoResult
       ELSE TRUE
    \* the settings server after SettingsServer.__init__
    /\ IF "settings" \in parts
       THEN /\ _config = StartConfig
            /\ config_toml = StartConfig
            /\ _on_save = <<>>
            /\ posts = 0
            /\ post = NoResult
       ELSE TRUE
    \* the reports folder does not exist
    /\ IF "store" \in parts
       THEN /\ reports_dir = <<>>
            /\ old_scans = <<>>
            /\ today = 0
            /\ gone = {}
       ELSE TRUE
    \* the DebouncedRunner after __init__: no timer
    /\ IF "debounce" \in parts
       THEN /\ _timer = 0
            /\ timers = <<>>
            /\ bursts = 0
            /\ dropped = 0
            /\ quiet = FALSE
       ELSE TRUE
    \* the shared folder is empty and no machine has begun a cycle
    /\ IF "shared" \in parts
       THEN /\ shared_reports = {}
            /\ shared_diff = {}
            /\ shared_summary = {}
            /\ scans = [m \in ScanMachines |-> [at |-> "idle", loaded |-> {}, begun |-> 0]]
       ELSE TRUE

Init ==
    /\ reports = <<>>
    /\ pc = "loaded"
    /\ diff = NoResult
    /\ summary = NoResult
    /\ text = NoResult
    /\ Idle(Parts \ {"engine"})

\* One more machine has published its report (reporting.py, write_report) before
\* the reports are loaded; load_latest_reports fills the dict in the order of
\* the directory listing, so the report may come at any place of the dict.
WriteReport ==
    /\ pc = "loaded"
    /\ Len(reports) < MaxMachines
    /\ \E pos \in 1..(Len(reports) + 1) :
           reports' = InsertAt(reports, pos, [machine |-> MachineNames[Len(reports) + 1], plugins |-> <<>>])
    /\ UNCHANGED <<pc, diff, summary, text>> /\ Untouched("engine")

\* The report of a machine lists one more plugin (reporting.py, build_report).
ScanPlugin ==
    /\ pc = "loaded"
    /\ TotalPlugins(reports, 1) < MaxRecords
    /\ \E i \in DOMAIN reports :
         \E plugin \in PluginRecords :
           reports' = [reports EXCEPT ![i].plugins = Append(@, plugin)]
    /\ UNCHANGED <<pc, diff, summary, text>> /\ Untouched("engine")

\* diff = compute_diff(reports)
ComputeDiff ==
    /\ pc = "loaded"
    /\ \E key_order \in Perms(AllKeys(PluginMaps(reports))) :
           diff' = compute_diff(reports, key_order)
    /\ pc' = "diffed"
    /\ UNCHANGED <<reports, summary, text>> /\ Untouched("engine")

\* summary = compute_update_summary(reports)
ComputeUpdateSummary ==
    /\ pc = "diffed"
    /\ summary' = compute_update_summary(reports)
    /\ pc' = "done"
    /\ UNCHANGED <<reports, diff, text>> /\ Untouched("engine")

\* WriteReport, for a pair of machines
WriteReportPair ==
    /\ pc = "loaded"
    /\ Len(reports) < 2
    /\ \E pos \in 1..(Len(reports) + 1) :
           reports' = InsertAt(reports, pos, [machine |-> MachineNames[Len(reports) + 1], plugins |-> <<>>])
    /\ UNCHANGED <<pc, diff, summary, text>> /\ Untouched("engine")

\* ScanPlugin, bounded by the length of each report
ScanPluginPair ==
    /\ pc = "loaded"
    /\ \E i \in DOMAIN reports :
         /\ Len(reports[i].plugins) < MaxPlugins
         /\ \E plugin \in PluginRecords :
               reports' = [reports EXCEPT ![i].plugins = Append(@, plugin)]
    /\ UNCHANGED <<pc, diff, summary, text>> /\ Untouched("engine")

Next == WriteReport \/ ScanPlugin \/ ComputeDiff \/ ComputeUpdateSummary

Spec == Init /\ [][Next]_vars

\* two machines with fuller inventories
SpecPair ==
    Init /\ [][WriteReportPair \/ ScanPluginPair \/ ComputeDiff \/ ComputeUpdateSummary]_vars

(***************************************************************************)
(* The printing of the diff (cli.py, daemon.py:                            *)
(* print(format_diff_summary(diff))).                                      *)
(***************************************************************************)
\* text = format_diff_summary(diff)
FormatDiffSummary ==
    /\ pc = "diffed"
    /\ text' = format_diff_summary(diff)
    /\ pc' = "printed"
    /\ UNCHANGED <<reports, diff, summary>> /\ Untouched("engine")

SpecFormat ==
    Init /\ [][WriteReport \/ ScanPlugin \/ ComputeDiff \/ FormatDiffSummary]_vars

(***************************************************************************)
(* The comparison of two version strings by their token tuples             *)
(* (diffing.py, _version_tokens and the tuple comparison of                *)
(* compute_update_summary; tests/test_diffing.py).                         *)
(***************************************************************************)
\* the version strings that are compared
VersionTexts ==
    { <<>>, V1, <<"9">>, <<"1", "0">>, V1_0, V2_0, <<"1", ".", "9", ".", "9">>,
      <<"0", "9">>, <<"v", "9">>, <<"V", "9">>, <<"v", "1", "0">>,
      <<"1", "a">>, <<"a", "1">>, <<"1", "-", "b">> }

InitTokens ==
    /\ left \in VersionTexts
    /\ right \in VersionTexts
    /\ order = NoResult
    /\ Idle(Parts \ {"token"})

\* _version_tokens(left) < / > / == _version_tokens(right)
CompareVersions ==
    /\ order = NoResult
    /\ LET a == _version_tokens(left)
           b == _version_tokens(right)
       IN  order' = [left_tokens |-> a, right_tokens |-> b,
                     less |-> TokensLess(a, b), greater |-> TokensLess(b, a), equal |-> a = b]
    /\ UNCHANGED <<left, right>> /\ Untouched("token")

SpecTokens == InitTokens /\ [][CompareVersions]_vars

(***************************************************************************)
(* The version labels of the update entries: machines A and B list the     *)
(* same plugin with any short and bundle versions, machine C does not list *)
(* it (tests/test_diffing.py, test_version_label_and_key and               *)
(* test_compute_update_summary_marks_missing_and_outdated).                *)
(***************************************************************************)
V1_2_3 == <<"1", ".", "2", ".", "3">>

\* the short and bundle versions of a record
LabelTexts == {Unknown, <<>>, V1_2_3, <<"1", "2", "3">>, V1_0}

InitLabel ==
    /\ \E s1 \in LabelTexts, b1 \in LabelTexts, s2 \in LabelTexts, b2 \in LabelTexts :
           reports = << [machine |-> "A", plugins |-> <<Plugin("Alpha", "alpha", s1, b1)>>],
                        [machine |-> "B", plugins |-> <<Plugin("Alpha", "alpha", s2, b2)>>],
                        [machine |-> "C", plugins |-> <<>>] >>
    /\ pc = "loaded"
    /\ diff = NoResult
    /\ summary = NoResult
    /\ text = NoResult
    /\ Idle(Parts \ {"engine"})

SpecLabel == InitLabel /\ [][ComputeDiff \/ ComputeUpdateSummary]_vars

(***************************************************************************)
(* The order of the update entries: machines A and B list plugins whose    *)
(* keys and names sort differently, machine C lists none; the reports are  *)
(* loaded in any order (diffing.py, load_latest_reports and                *)
(* compute_update_summary).                                                *)
(***************************************************************************)
\* plugin "beta" has the key "alpha", plugin "Alpha" has the key "beta"
OrderRecords ==
    { Plugin("beta", "alpha", V1_0, V1),
      Plugin("beta", "alpha", V2_0, V2),
      Plugin("Alpha", "beta", V1_0, V1),
      Plugin("Alpha", "beta", Unknown, Unknown) }

\* the plugin lists of a report
PluginLists == UNION {[1..n -> OrderRecords] : n \in 0..MaxPlugins}

InitOrder ==
    /\ \E pa \in PluginLists, pb \in PluginLists, p \in Perms({"A", "B", "C"}) :
           reports = [i \in 1..3 |->
                         [machine |-> p[i],
                          plugins |-> IF p[i] = "A" THEN pa ELSE IF p[i] = "B" THEN pb ELSE <<>>]]
    /\ pc = "loaded"
    /\ diff = NoResult
    /\ summary = NoResult
    /\ text = NoResult
    /\ Idle(Parts \ {"engine"})

SpecOrder == InitOrder /\ [][ComputeDiff \/ ComputeUpdateSummary]_vars

(***************************************************************************)
(* The keys of the plugin records: machines A and B list records with a    *)
(* bundle id, with a bundle name only, with the same key and with neither  *)
(* (diffing.py, _plugin_map).                                              *)
(***************************************************************************)
\* plugin records by what _plugin_map finds in bundle_id and bundle_name
KeyRecords ==
    { Plugin("Alpha", "alpha", V1_0, V1),
      Plugin("Alpha", "alpha", Unknown, Unknown),
      Plugin("alpha", None, V2_0, V2),
      Plugin("beta", "", V1_0, V1),
      Plugin(None, None, V1_0, V1) }

InitKeys ==
    /\ \E pa, pb \in UNION {[1..n -> KeyRecords] : n \in 0..MaxPlugins} :
           reports = << [machine |-> "A", plugins |-> pa], [machine |-> "B", plugins |-> pb] >>
    /\ pc = "loaded"
    /\ diff = NoResult
    /\ summary = NoResult
    /\ text = NoResult
    /\ Idle(Parts \ {"engine"})

SpecKeys == InitKeys /\ [][ComputeDiff \/ ComputeUpdateSummary]_vars

(***************************************************************************)
(* daemon.py, _perform_scan as run_daemon's threads call it.  One action   *)
(* per statement that reads or writes the lock or the pending flag, so     *)
(* that the calls of different threads interleave as the threads do.       *)
(***************************************************************************)
SetCall(t, place) == call' = [call EXCEPT ![t] = place]

\* scan_action() is called: by the main thread at start and when the interval
\* has elapsed, by a Timer thread when the debounce delay has elapsed
Trigger(t) ==
    /\ call[t] = "idle"
    /\ triggers < MaxTriggers
    /\ triggers' = triggers + 1
    /\ SetCall(t, "acquire")
    /\ UNCHANGED <<reruns, met, scan_lock, pending, owed, cycles>> /\ Untouched("daemon")

\* Acquire on a lock that every caller gets
Acquire_Unlocked(t) ==
    /\ call[t] = "acquire"
    /\ scan_lock' = TRUE
    /\ SetCall(t, "clear")
    /\ UNCHANGED <<reruns, met, pending, owed, triggers, cycles>> /\ Untouched("daemon")

\* if not scan_lock.acquire(blocking=False)
Acquire(t) ==
    /\ call[t] = "acquire"
    /\ IF scan_lock
       THEN /\ SetCall(t, "pending")
            /\ owed' = TRUE
            \* the cycle that runs, or the one the holder is about to begin
            /\ met' = met \cup {IF \E u \in Threads : call[u] \in {"clear", "scan"}
                                THEN cycles + 1 ELSE cycles}
            /\ UNCHANGED scan_lock
       ELSE /\ scan_lock' = TRUE
            /\ SetCall(t, "clear")
            /\ UNCHANGED <<owed, met>>
    /\ UNCHANGED <<reruns, pending, triggers, cycles>> /\ Untouched("daemon")

\* pending["scan"] = True; return
SetPending(t) ==
    /\ call[t] = "pending"
    /\ pending' = TRUE
    /\ SetCall(t, "idle")
    /\ UNCHANGED <<reruns, met, scan_lock, owed, triggers, cycles>> /\ Untouched("daemon")

\* pending["scan"] = False, at the head of the loop
ClearPending(t) ==
    /\ call[t] = "clear"
    /\ pending' = FALSE
    /\ SetCall(t, "scan")
    /\ UNCHANGED <<reruns, met, scan_lock, owed, triggers, cycles>> /\ Untouched("daemon")

\* perform_scan(config, open_report=True) starts: a cycle begins
BeginScan(t) ==
    /\ call[t] = "scan"
    /\ cycles' = cycles + 1
    /\ owed' = FALSE
    /\ SetCall(t, "scanning")
    /\ UNCHANGED <<reruns, met, scan_lock, pending, triggers>> /\ Untouched("daemon")

\* perform_scan with an exception that no handler and no finally clause sees
EndScan_Escapes(t) ==
    /\ call[t] = "scanning"
    /\ \E raised \in BOOLEAN : SetCall(t, IF raised THEN "idle" ELSE "check")
    /\ UNCHANGED <<reruns, met, scan_lock, pending, owed, triggers, cycles>> /\ Untouched("daemon")

\* perform_scan returns, or raises and the handler prints "Scan failed";
\* either way the loop goes on to its test
EndScan(t) ==
    /\ call[t] = "scanning"
    /\ \E raised \in BOOLEAN : SetCall(t, IF raised THEN "failed" ELSE "check")
    /\ UNCHANGED <<reruns, met, scan_lock, pending, owed, triggers, cycles>> /\ Untouched("daemon")

\* if not pending.get("scan"): break
CheckPending(t) ==
    /\ call[t] \in {"check", "failed"}
    /\ SetCall(t, IF pending THEN "clear" ELSE "release")
    \* a pass of the loop that follows another one
    /\ reruns' = IF pending THEN reruns + 1 ELSE reruns
    /\ UNCHANGED <<met, scan_lock, pending, owed, triggers, cycles>> /\ Untouched("daemon")

\* finally: scan_lock.release()
Release(t) ==
    /\ call[t] = "release"
    /\ scan_lock' = FALSE
    /\ SetCall(t, "idle")
    /\ UNCHANGED <<reruns, met, pending, owed, triggers, cycles>> /\ Untouched("daemon")

NextDaemon ==
    \E t \in Threads :
        \/ Trigger(t)
        \/ Acquire(t)
        \/ SetPending(t)
        \/ ClearPending(t)
        \/ BeginScan(t)
        \/ EndScan(t)
        \/ CheckPending(t)
        \/ Release(t)

SpecDaemon == Idle(Parts) /\ [][NextDaemon]_vars

(***************************************************************************)
(* daemon.py, DebouncedRunner.  trigger and cancel run under self._lock,   *)
(* so each is one step; every threading.Timer runs in a thread of its own: *)
(* it waits for the delay, tests that it was not cancelled and then calls  *)
(* the action.  A timer is "waiting" once started, "cancelled" when        *)
(* cancel reached it while it waited, "expired" once its test has passed   *)
(* and "ran" once it has called the action.                                *)
(***************************************************************************)
\* Timer.cancel(): stops a timer that still waits, and no other
CancelTimer(all, i) ==
    IF i /= 0 /\ all[i] = "waiting" THEN [all EXCEPT ![i] = "cancelled"] ELSE all

\* the timer held by the runner is started, has not fired and is not cancelled
Scheduled == _timer /= 0 /\ timers[_timer] = "waiting"

\* a trigger that starts a new timer and leaves the previous one alone
trigger_KeepsPrevious ==
    /\ Len(timers) < MaxStarts
    /\ timers' = Append(timers, "waiting")
    /\ _timer' = Len(timers) + 1
    /\ bursts' = IF Scheduled THEN bursts ELSE bursts + 1
    /\ quiet' = FALSE
    /\ UNCHANGED dropped /\ Untouched("debounce")

\* DebouncedRunner.trigger
trigger ==
    /\ Len(timers) < MaxStarts
    /\ timers' = Append(CancelTimer(timers, _timer), "waiting")
    /\ _timer' = Len(timers) + 1
    \* a trigger that finds no scheduled timer begins a burst
    /\ bursts' = IF Scheduled THEN bursts ELSE bursts + 1
    /\ quiet' = FALSE
    /\ UNCHANGED dropped /\ Untouched("debounce")

\* DebouncedRunner.cancel
cancel ==
    /\ timers' = CancelTimer(timers, _timer)
    /\ _timer' = 0
    /\ dropped' = IF Scheduled THEN dropped + 1 ELSE dropped
    /\ quiet' = TRUE
    /\ UNCHANGED bursts /\ Untouched("debounce")

\* a Timer thread: the delay has passed and the timer finds itself not
\* cancelled
Expire(i) ==
    /\ timers[i] = "waiting"
    /\ timers' = [timers EXCEPT ![i] = "expired"]
    /\ UNCHANGED <<_timer, bursts, dropped, quiet>> /\ Untouched("debounce")

\* a Timer thread: self._action() is called
RunAction(i) ==
    /\ timers[i] = "expired"
    /\ timers' = [timers EXCEPT ![i] = "ran"]
    /\ UNCHANGED <<_timer, bursts, dropped, quiet>> /\ Untouched("debounce")

SpecDebounce ==
    Idle(Parts) /\ [][trigger \/ cancel \/ \E i \in DOMAIN timers : Expire(i) \/ RunAction(i)]_vars

(***************************************************************************)
(* menubar.py, MenuBarApp with the local backend: _on_scan, _scan_worker,  *)
(* _on_open_report and _apply_settings.  The callbacks of the menu and of  *)
(* the rumps timer run on the main thread, one at a time; the scan workers *)
(* and the debounce Timer run beside it.                                   *)
(***************************************************************************)
\* the main thread is between two callbacks
UiIdle == caller["ui"] = "idle" /\ opening = NoThread

\* _on_scan called from the timer, from Scan Now or from the debounce Timer
OnScan(c) ==
    /\ caller[c] = "idle"
    /\ c = "ui" => UiIdle
    /\ IF _scan_lock
       THEN /\ caller' = [caller EXCEPT ![c] = "failed"]
            /\ unserved' = TRUE
            /\ UNCHANGED <<_scan_lock, worker>>
       ELSE /\ \E w \in Workers :
                  /\ worker[w] = NoThread
                  /\ worker' = [worker EXCEPT ![w] = [at |-> "start", dir |-> 0]]
            /\ _scan_lock' = TRUE
            /\ UNCHANGED <<caller, unserved>>
    /\ UNCHANGED <<_pending_scan, _last_summary, _last_update_count, _state, reports_path,
                   report_html, opening>> /\ Untouched("menu")

\* self._pending_scan = True; return
OnScanPending(c) ==
    /\ caller[c] = "failed"
    /\ _pending_scan' = TRUE
    /\ caller' = [caller EXCEPT ![c] = "idle"]
    /\ UNCHANGED <<_scan_lock, _last_summary, _last_update_count, _state, reports_path,
                   report_html, worker, opening, unserved>> /\ Untouched("menu")

\* _scan_worker: self._apply_state(MenuState.SCANNING); perform_scan(self.config) starts
WorkerBegin(w) ==
    /\ worker[w].at = "start"
    /\ _state' = "scanning"
    /\ worker' = [worker EXCEPT ![w] = [at |-> "scanning", dir |-> reports_path]]
    /\ unserved' = FALSE
    /\ UNCHANGED <<_scan_lock, _pending_scan, _last_summary, _last_update_count, reports_path,
                   report_html, caller, opening>> /\ Untouched("menu")

\* a _scan_worker that never leaves the SCANNING state
WorkerEnd_StateKept(w) ==
    /\ worker[w].at = "scanning"
    /\ \E outcome \in {"updates", "current", "empty", "raise"} :
         /\ report_html' = IF outcome \in {"updates", "current"}
                           THEN report_html \cup {worker[w].dir} ELSE report_html
         /\ _last_summary' = IF outcome = "raise" THEN _last_summary ELSE outcome /= "empty"
         /\ _last_update_count' = IF outcome = "raise" THEN _last_update_count
                                  ELSE IF outcome = "updates" THEN 1 ELSE 0
         /\ worker' = [worker EXCEPT ![w].at = IF outcome = "raise" THEN "except" ELSE "release"]
    /\ UNCHANGED <<_state, _scan_lock, _pending_scan, reports_path, caller, opening, unserved>>
    /\ Untouched("menu")

\* _scan_worker: perform_scan returns and the try block records the result, or
\* it raises and the except clause sets IDLE and alerts; up to the finally
\* clause
WorkerEnd(w) ==
    /\ worker[w].at = "scanning"
    /\ \E outcome \in {"updates", "current", "empty", "raise"} :
         /\ report_html' = IF outcome \in {"updates", "current"}
                           THEN report_html \cup {worker[w].dir} ELSE report_html
         /\ _last_summary' = IF outcome = "raise" THEN _last_summary ELSE outcome /= "empty"
         /\ _last_update_count' = IF outcome = "raise" THEN _last_update_count
                                  ELSE IF outcome = "updates" THEN 1 ELSE 0
         /\ _state' = IF outcome = "updates" THEN "updates" ELSE "idle"
         /\ worker' = [worker EXCEPT ![w].at = IF outcome = "raise" THEN "except" ELSE "release"]
    /\ UNCHANGED <<_scan_lock, _pending_scan, reports_path, caller, opening, unserved>> /\ Untouched("menu")

\* finally: self._scan_lock.release()
WorkerRelease(w) ==
    /\ worker[w].at \in {"release", "except"}
    /\ _scan_lock' = FALSE
    /\ worker' = [worker EXCEPT ![w].at = "check"]
    /\ UNCHANGED <<_pending_scan, _last_summary, _last_update_count, _state, reports_path,
                   report_html, caller, opening, unserved>> /\ Untouched("menu")

\* if self._pending_scan
WorkerCheck(w) ==
    /\ worker[w].at = "check"
    /\ worker' = [worker EXCEPT ![w] = IF _pending_scan THEN [at |-> "reset", dir |-> 0] ELSE NoThread]
    /\ UNCHANGED <<_scan_lock, _pending_scan, _last_summary, _last_update_count, _state,
                   reports_path, report_html, caller, opening, unserved>> /\ Untouched("menu")

\* self._pending_scan = False
WorkerReset(w) ==
    /\ worker[w].at = "reset"
    /\ _pending_scan' = FALSE
    /\ worker' = [worker EXCEPT ![w].at = "rescan"]
    /\ UNCHANGED <<_scan_lock, _last_summary, _last_update_count, _state, reports_path,
                   report_html, caller, opening, unserved>> /\ Untouched("menu")

\* self._on_scan() at the end of _scan_worker: the next worker takes the slot
\* of this one, which ends
WorkerRescan(w) ==
    /\ worker[w].at = "rescan"
    /\ IF _scan_lock
       THEN /\ worker' = [worker EXCEPT ![w].at = "failed"]
            /\ unserved' = TRUE
            /\ UNCHANGED _scan_lock
       ELSE /\ worker' = [worker EXCEPT ![w].at = "start"]
            /\ _scan_lock' = TRUE
            /\ UNCHANGED unserved
    /\ UNCHANGED <<_pending_scan, _last_summary, _last_update_count, _state, reports_path,
                   report_html, caller, opening>> /\ Untouched("menu")

\* self._pending_scan = True; return, in the _on_scan of a worker
WorkerPending(w) ==
    /\ worker[w].at = "failed"
    /\ _pending_scan' = TRUE
    /\ worker' = [worker EXCEPT ![w] = NoThread]
    /\ UNCHANGED <<_scan_lock, _last_summary, _last_update_count, _state, reports_path,
                   report_html, caller, opening, unserved>> /\ Untouched("menu")

\* _on_open_report: opens report__latest.html if it exists, alerts if there is
\* no summary yet, otherwise calls perform_scan(self.config)
OnOpenReport ==
    /\ UiIdle
    /\ opening' = IF reports_path \notin report_html /\ _last_summary
                  THEN [at |-> "scanning", dir |-> reports_path] ELSE opening
    /\ UNCHANGED <<_scan_lock, _pending_scan, _last_summary, _last_update_count, _state,
                   reports_path, report_html, worker, caller, unserved>> /\ Untouched("menu")

\* _on_open_report: perform_scan returns or raises
OpenReportEnd ==
    /\ opening.at = "scanning"
    /\ \E outcome \in {"updates", "current", "empty", "raise"} :
         /\ report_html' = IF outcome \in {"updates", "current"}
                           THEN report_html \cup {opening.dir} ELSE report_html
         /\ _last_summary' = IF outcome = "raise" THEN _last_summary ELSE outcome /= "empty"
         /\ _last_update_count' = IF outcome = "raise" THEN _last_update_count
                                  ELSE IF outcome = "updates" THEN 1 ELSE 0
    /\ opening' = NoThread
    /\ UNCHANGED <<_scan_lock, _pending_scan, _state, reports_path, worker, caller, unserved>> /\ Untouched("menu")

\* _apply_settings(updated) with another reports_path
ApplySettings ==
    /\ UiIdle
    /\ \E folder \in Folders \ {reports_path} : reports_path' = folder
    /\ UNCHANGED <<_scan_lock, _pending_scan, _last_summary, _last_update_count, _state,
                   report_html, worker, caller, opening, unserved>> /\ Untouched("menu")

NextMenu ==
    \/ \E c \in Callers : OnScan(c) \/ OnScanPending(c)
    \/ \E w \in Workers :
          \/ WorkerBegin(w)
          \/ WorkerEnd(w)
          \/ WorkerRelease(w)
          \/ WorkerCheck(w)
          \/ WorkerReset(w)
          \/ WorkerRescan(w)
          \/ WorkerPending(w)
    \/ OnOpenReport
    \/ OpenReportEnd
    \/ ApplySettings

SpecMenu == Idle(Parts) /\ [][NextMenu]_vars

(***************************************************************************)
(* scan_cycle.py, perform_scan with the local backend, on the files of one *)
(* reports folder (reporting.py write_report and prune_reports, diffing.py *)
(* load_latest_reports, write_diff and write_summary, combined_report.py). *)
(* File names and machine names are sequences of characters; the folder is *)
(* a function from the names of its files to their JSON contents, of which *)
(* the model keeps the kind and the value of the key "machine_name".       *)
(***************************************************************************)
DiffPrefix == <<"d", "i", "f", "f", "_", "_">>

\* "__latest.json"
LatestSuffix == <<"_", "_", "l", "a", "t", "e", "s", "t", ".", "j", "s", "o", "n">>

DIFF_FILENAME == <<"d", "i", "f", "f">> \o LatestSuffix

SUMMARY_FILENAME == <<"s", "u", "m", "m", "a", "r", "y">> \o LatestSuffix

COMBINED_JSON_LATEST_FILENAME == <<"r", "e", "p", "o", "r", "t">> \o LatestSuffix

COMBINED_HTML_LATEST_FILENAME ==
    <<"r", "e", "p", "o", "r", "t", "_", "_", "l", "a", "t", "e", "s", "t", ".", "h", "t", "m", "l">>

\* name.startswith(prefix)
StartsWith(name, prefix) ==
    Len(name) >= Len(prefix) /\ SubSeq(name, 1, Len(prefix)) = prefix

\* name.endswith(suffix)
EndsWith(name, suffix) ==
    Len(name) >= Len(suffix) /\ SubSeq(name, Len(name) - Len(suffix) + 1, Len(name)) = suffix

\* name.replace("/", "-")
_safe_machine_name(name) == [i \in DOMAIN name |-> IF name[i] = "/" THEN "-" ELSE name[i]]

\* f"{machine_name}__latest.json" of write_report
LatestReportName(name) == _safe_machine_name(name) \o LatestSuffix

\* a JSON file without the key "machine_name"
NoMachine == <<None>>

ReportFile(name) == [kind |-> "report", machine_name |-> name]

OtherFile(kind) == [kind |-> kind, machine_name |-> NoMachine]

\* the folder with the file written (created or overwritten)
WriteFile(folder, name, content) ==
    [n \in DOMAIN folder \cup {name} |-> IF n = name THEN content ELSE folder[n]]

\* load_latest_reports: the keys of the dict it returns
load_latest_reports(folder) ==
    { folder[n].machine_name :
          n \in {n \in DOMAIN folder :
                     /\ EndsWith(n, LatestSuffix)
                     /\ ~StartsWith(n, DiffPrefix)
                     /\ folder[n].machine_name \notin {NoMachine, <<>>}} }

InitScan ==
    \* the machine names a config may carry: validate_config accepts every
    \* name that is not blank
    /\ machine_name \in { <<"A">>, <<"a", "/", "b">>, <<"d", "i", "f", "f">>,
                          DiffPrefix \o <<"A">>, <<"s", "u", "m", "m", "a", "r", "y">> }
    /\ files = <<>>
    /\ archive = {}
    /\ step = "start"
    /\ loaded = {}
    /\ scan_result = NoResult
    /\ Idle(Parts \ {"scan"})

\* another machine has written its latest report into the folder
PeerPublish ==
    /\ step /= "returned"
    /\ \E peer \in { <<"B">>, <<"C">> } :
          /\ LatestReportName(peer) \notin DOMAIN files
          /\ files' = WriteFile(files, LatestReportName(peer), ReportFile(peer))
          /\ archive' = archive \cup {_safe_machine_name(peer)}
    /\ UNCHANGED <<machine_name, step, loaded, scan_result>> /\ Untouched("scan")

\* scan_plugins, build_report, store.write_report(report)
PublishReport ==
    /\ step = "start"
    /\ files' = WriteFile(files, LatestReportName(machine_name), ReportFile(machine_name))
    /\ archive' = archive \cup {_safe_machine_name(machine_name)}
    /\ step' = "published"
    /\ UNCHANGED <<machine_name, loaded, scan_result>> /\ Untouched("scan")

\* store.prune_reports(config.prune_days): timestamped reports that are old
\* enough go, the one just written stays
PruneReports ==
    /\ step = "published"
    /\ \E kept \in SUBSET archive :
          /\ _safe_machine_name(machine_name) \in kept
          /\ archive' = kept
    /\ step' = "pruned"
    /\ UNCHANGED <<machine_name, files, loaded, scan_result>> /\ Untouched("scan")

\* reports = store.load_latest_reports(); if not reports: return ScanResult(None, None, 0, None)
LoadReports ==
    /\ step = "pruned"
    /\ loaded' = load_latest_reports(files)
    /\ IF loaded' = {}
       THEN /\ scan_result' = [diff |-> NoResult, summary |-> NoResult, update_count |-> 0,
                           report_path |-> NoMachine]
            /\ step' = "returned"
       ELSE /\ step' = "loaded"
            /\ UNCHANGED scan_result
    /\ UNCHANGED <<machine_name, files, archive>> /\ Untouched("scan")

\* diff = compute_diff(reports); store.write_diff(diff)
WriteDiff ==
    /\ step = "loaded"
    /\ files' = WriteFile(files, DIFF_FILENAME, OtherFile("diff"))
    /\ step' = "diffed"
    /\ UNCHANGED <<machine_name, archive, loaded, scan_result>> /\ Untouched("scan")

\* summary = compute_update_summary(reports); store.write_summary(summary)
WriteSummary ==
    /\ step = "diffed"
    /\ files' = WriteFile(files, SUMMARY_FILENAME, OtherFile("summary"))
    /\ step' = "summarized"
    /\ UNCHANGED <<machine_name, archive, loaded, scan_result>> /\ Untouched("scan")

\* store.write_combined_report(reports, summary, diff) and the return; the
\* update count of a machine that is not among the loaded reports is 0
ReturnResult ==
    /\ step = "summarized"
    /\ files' = WriteFile(WriteFile(files, COMBINED_HTML_LATEST_FILENAME, OtherFile("html")),
                          COMBINED_JSON_LATEST_FILENAME, OtherFile("combined"))
    /\ \E update_count \in (IF machine_name \in loaded THEN {0, 1} ELSE {0}) :
          scan_result' = [diff |-> [machines |-> loaded], summary |-> [machines |-> loaded],
                     update_count |-> update_count,
                     report_path |-> COMBINED_HTML_LATEST_FILENAME]
    /\ step' = "returned"
    /\ UNCHANGED <<machine_name, archive, loaded>> /\ Untouched("scan")

NextScan ==
    \/ PeerPublish
    \/ PublishReport
    \/ PruneReports
    \/ LoadReports
    \/ WriteDiff
    \/ WriteSummary
    \/ ReturnResult

SpecScan == InitScan /\ [][NextScan]_vars

(***************************************************************************)
(* scan_cycle.py, perform_scan as two machines run it on one shared        *)
(* reports folder.  Nothing orders the file operations of one machine      *)
(* against those of the other, so each store call is one step.  Of a diff  *)
(* and of a summary the model keeps the machines they list.                *)
(***************************************************************************)
\* scan_plugins, build_report, store.write_report(report), store.prune_reports
SharedWriteReport(m) ==
    /\ scans[m].at = "idle"
    /\ scans[m].begun < MaxScans
    /\ shared_reports' = shared_reports \cup {m}
    /\ scans' = [scans EXCEPT ![m] = [at |-> "published", loaded |-> {}, begun |-> @.begun + 1]]
    /\ UNCHANGED <<shared_diff, shared_summary>> /\ Untouched("shared")

\* reports = store.load_latest_reports()
SharedLoad(m) ==
    /\ scans[m].at = "published"
    /\ scans' = [scans EXCEPT ![m].at = IF shared_reports = {} THEN "idle" ELSE "loaded",
                              ![m].loaded = shared_reports]
    /\ UNCHANGED <<shared_reports, shared_diff, shared_summary>> /\ Untouched("shared")

\* diff = compute_diff(reports); store.write_diff(diff)
SharedWriteDiff(m) ==
    /\ scans[m].at = "loaded"
    /\ shared_diff' = scans[m].loaded
    /\ scans' = [scans EXCEPT ![m].at = "diffed"]
    /\ UNCHANGED <<shared_reports, shared_summary>> /\ Untouched("shared")

\* summary = compute_update_summary(reports); store.write_summary(summary),
\* and the rest of perform_scan up to its return
SharedWriteSummary(m) ==
    /\ scans[m].at = "diffed"
    /\ shared_summary' = scans[m].loaded
    /\ scans' = [scans EXCEPT ![m].at = "idle"]
    /\ UNCHANGED <<shared_reports, shared_diff>> /\ Untouched("shared")

SpecShared ==
    Idle(Parts) /\ [][\E m \in ScanMachines : \/ SharedWriteReport(m)
                                              \/ SharedLoad(m)
                                              \/ SharedWriteDiff(m)
                                              \/ SharedWriteSummary(m)]_vars

(***************************************************************************)
(* update_check.py, _parse_version and is_update_available.  The pattern   *)
(* of _parse_version is the raw string r"(\\d+)\\.(\\d+)\\.(\\d+)": in it   *)
(* "\\" matches one backslash, "d+" a run of the letter d and "." any       *)
(* character but a newline.                                                *)
(***************************************************************************)
\* the end of the longest run of the letter d from position i on, i - 1 if
\* there is none
RECURSIVE LetterDRunEnd(_, _)
LetterDRunEnd(value, i) ==
    IF i <= Len(value) /\ value[i] = "d" THEN LetterDRunEnd(value, i + 1) ELSE i - 1

\* the three groups of a match of the pattern that starts at i, <<>> if there
\* is none
GroupsAt(value, i) ==
    LET \* the end of a match of (\\d+) that starts at j, 0 if there is none
        GroupEnd(j) ==
            IF j <= Len(value) /\ value[j] = "\\" /\ LetterDRunEnd(value, j + 1) >= j + 1
            THEN LetterDRunEnd(value, j + 1) ELSE 0
        \* the end of a match of \\. that starts at j, 0 if there is none
        SeparatorEnd(j) ==
            IF j + 1 <= Len(value) /\ value[j] = "\\" /\ value[j + 1] /= "\n"
            THEN j + 1 ELSE 0
        e1 == GroupEnd(i)
        s1 == IF e1 = 0 THEN 0 ELSE SeparatorEnd(e1 + 1)
        e2 == IF s1 = 0 THEN 0 ELSE GroupEnd(s1 + 1)
        s2 == IF e2 = 0 THEN 0 ELSE SeparatorEnd(e2 + 1)
        e3 == IF s2 = 0 THEN 0 ELSE GroupEnd(s2 + 1)
    IN  IF e3 = 0 THEN <<>>
        ELSE <<SubSeq(value, i, e1), SubSeq(value, s1 + 1, e2), SubSeq(value, s2 + 1, e3)>>

\* re.search: the groups of the leftmost match, <<>> if there is none
RECURSIVE SearchFrom(_, _)
SearchFrom(value, i) ==
    IF i > Len(value) THEN <<>>
    ELSE IF GroupsAt(value, i) /= <<>> THEN GroupsAt(value, i)
    ELSE SearchFrom(value, i + 1)

_parse_version(value) ==
    LET groups == SearchFrom(value, 1)
        \* int(group): a ValueError unless the group is a run of digits
        ParseInt(group) ==
            IF group /= <<>> /\ \A i \in DOMAIN group : IsDigit(group[i])
            THEN [raised |-> FALSE, value |-> IntOf(group)]
            ELSE [raised |-> TRUE, value |-> 0]
    IN  IF groups = <<>> THEN [raised |-> FALSE, version |-> <<0, 0, 0>>]
        ELSE LET parts == [i \in 1..3 |-> ParseInt(groups[i])]
             IN  IF \E i \in 1..3 : parts[i].raised
                 THEN [raised |-> TRUE, version |-> <<0, 0, 0>>]
                 ELSE [raised |-> FALSE, version |-> [i \in 1..3 |-> parts[i].value]]

\* _parse_version(latest) > _parse_version(current), the comparison of two
\* tuples of integers; a ValueError of either call leaves the function
is_update_available(cur, lat) ==
    LET l == _parse_version(lat).version
        c == _parse_version(cur).version
    IN  IF _parse_version(lat).raised \/ _parse_version(cur).raised
        THEN [raised |-> TRUE, value |-> FALSE]
        ELSE [raised |-> FALSE,
              value |-> \/ l[1] > c[1]
                        \/ l[1] = c[1] /\ l[2] > c[2]
                        \/ l[1] = c[1] /\ l[2] = c[2] /\ l[3] > c[3]]

\* the version texts of the installed package and of the latest release
ReleaseTexts ==
    { <<"1", ".", "0", ".", "0">>, <<"1", ".", "0", ".", "1">>,
      <<"1", ".", "2", ".", "0">>, <<"1", ".", "1", ".", "9">>,
      V1_2_3,
      <<"v", "1", ".", "2", ".", "3">>,
      <<"1", ".", "1", "0", ".", "0">>,
      <<"n", "o", "p", "e">>,
      <<"\\", "d", "\\", ".", "\\", "d", "\\", ".", "\\", "d">> }

InitUpdate ==
    /\ current_release \in ReleaseTexts
    /\ latest_release \in ReleaseTexts
    /\ available = NoResult
    /\ Idle(Parts \ {"update"})

\* is_update_available(current, latest)
IsUpdateAvailable ==
    /\ available = NoResult
    /\ available' = is_update_available(current_release, latest_release)
    /\ UNCHANGED <<current_release, latest_release>> /\ Untouched("update")

SpecUpdate == InitUpdate /\ [][IsUpdateAvailable]_vars

(***************************************************************************)
(* reporting.py, write_report and prune_reports on the reports folder of   *)
(* the local store, with is_timestamped_report of report_naming.py.  A     *)
(* folder is a function from the names of its files to the day each was    *)
(* last written; the timestamp of a report's name is the day's digit.      *)
(***************************************************************************)
is_timestamped_report_LatestToo(name) ==
    /\ EndsWith(name, <<".", "j", "s", "o", "n">>)
    /\ ~(StartsWith(name, DiffPrefix) \/ StartsWith(name, <<"s", "u", "m", "m", "a", "r", "y", "_", "_">>))
    /\ \E i \in 1..(Len(name) - 1) : name[i] = "_" /\ name[i + 1] = "_"

is_timestamped_report(name) ==
    /\ EndsWith(name, <<".", "j", "s", "o", "n">>)
    /\ ~EndsWith(name, LatestSuffix)
    /\ ~(StartsWith(name, DiffPrefix) \/ StartsWith(name, <<"s", "u", "m", "m", "a", "r", "y", "_", "_">>))
    \* "__" in name
    /\ \E i \in 1..(Len(name) - 1) : name[i] = "_" /\ name[i + 1] = "_"

\* a reports folder as earlier scans have left it: a timestamped report of
\* machine A and one of machine diff from the versions that wrote them
\* next to the latest reports, the latest report of A, the diff, the
\* summary, and a file of the user
InitStore ==
    /\ reports_dir =
          [n \in { <<"A", "_", "_", "0", ".", "j", "s", "o", "n">>,
                   DiffPrefix \o <<"0", ".", "j", "s", "o", "n">>,
                   LatestReportName(<<"A">>), DIFF_FILENAME, SUMMARY_FILENAME,
                   <<"n", "o", "t", "e", "s", ".", "t", "x", "t">> } |-> 0]
    /\ old_scans = <<>>
    /\ today = 0
    /\ gone = {}
    /\ Idle(Parts \ {"store"})

\* write_report(reports_dir, report) with _move_old_scans; a move that raises
\* OSError is skipped
write_report ==
    \E machine \in { <<"A">>, <<"d", "i", "f", "f">> },
       moved \in SUBSET {n \in DOMAIN reports_dir : is_timestamped_report(n)} :
        LET timestamped == _safe_machine_name(machine) \o <<"_", "_", Digits[today + 1]>>
                               \o <<".", "j", "s", "o", "n">>
            archived == [n \in DOMAIN old_scans \cup moved |->
                            IF n \in moved THEN reports_dir[n] ELSE old_scans[n]]
            kept == [n \in DOMAIN reports_dir \ moved |-> reports_dir[n]]
        IN  /\ old_scans' = WriteFile(archived, timestamped, today)
            /\ reports_dir' = WriteFile(kept, LatestReportName(machine), today)
            /\ gone' = gone \cup {[file |-> n, by |-> "move", age |-> today - reports_dir[n],
                                   prune_days |-> 0] : n \in moved}
            /\ UNCHANGED today /\ Untouched("store")

\* prune_reports(reports_dir, prune_days); an unlink that raises OSError is
\* skipped
prune_reports ==
    \E prune_days \in -1..MaxDays :
        \E here \in SUBSET {n \in DOMAIN reports_dir :
                               /\ prune_days > 0
                               /\ is_timestamped_report(n)
                               /\ reports_dir[n] < today - prune_days},
           there \in SUBSET {n \in DOMAIN old_scans :
                                /\ prune_days > 0
                                /\ is_timestamped_report(n)
                                /\ old_scans[n] < today - prune_days} :
            /\ here \cup there /= {}
            /\ reports_dir' = [n \in DOMAIN reports_dir \ here |-> reports_dir[n]]
            /\ old_scans' = [n \in DOMAIN old_scans \ there |-> old_scans[n]]
            /\ gone' = gone \cup
                   {[file |-> n, by |-> "unlink", age |-> today - reports_dir[n],
                     prune_days |-> prune_days] : n \in here} \cup
                   {[file |-> n, by |-> "unlink", age |-> today - old_scans[n],
                     prune_days |-> prune_days] : n \in there}
            /\ UNCHANGED today /\ Untouched("store")

\* a day passes
Tomorrow ==
    /\ today < MaxDays
    /\ today' = today + 1
    /\ UNCHANGED <<reports_dir, old_scans, gone>> /\ Untouched("store")

SpecStore == InitStore /\ [][write_report \/ prune_reports \/ Tomorrow]_vars

(***************************************************************************)
(* settings_server.py, POST /save and POST /import: _config_from_form,     *)
(* _config_from_toml, _finalize_save with validate_config and write_config *)
(* of config.py.  A config is modelled by machine_name, plugins_path,      *)
(* reports_backend, dropbox_app_key (the app secret and the refresh token  *)
(* go through the same code as the app key and are submitted with it),     *)
(* dropbox_reports_path and scan_interval_seconds; texts are TLA+ strings. *)
(* The request carries no dropbox_reports_path.  The TCPServer handles one *)
(* request at a time.                                                      *)
(***************************************************************************)
\* str.strip().lower() on the texts of the model
StripLower(s) ==
    CASE s = " " -> ""
      [] s = "LOCAL" -> "local"
      [] OTHER -> s

\* int(raw) on the texts of the model, raised for a ValueError
ParseNumber(raw) ==
    CASE raw = "3600" -> [raised |-> FALSE, value |-> 3600]
      [] raw = "-1" -> [raised |-> FALSE, value |-> -1]
      [] OTHER -> [raised |-> TRUE, value |-> 0]

\* the fields a request submits; "" is a field the request does not carry
\* (parse_qs drops a blank field, a TOML file may leave a key out)
SubmittedValues ==
    [machine_name : {"Studio", "Booth", " ", ""},
     plugins_path : {"/plugins", "/nope"},
     reports_backend : {"local", "LOCAL", "dropbox", "ftp"},
     dropbox_app_key : {"", "KEY"},
     scan_interval_seconds : {"3600", "-1", "abc"}]

\* _config_from_form: the updated config, or raised for a ValueError
_config_from_form(submitted, now) ==
    LET get_text(key, default) ==
            LET raw == IF submitted[key] = "" THEN default ELSE submitted[key]
            IN  IF raw = " " THEN "" ELSE raw
        backend == StripLower(get_text("reports_backend", now.reports_backend))
        interval == IF submitted.scan_interval_seconds = ""
                    THEN [raised |-> FALSE, value |-> now.scan_interval_seconds]
                    ELSE ParseNumber(submitted.scan_interval_seconds)
        app_key == get_text("dropbox_app_key",
                            IF now.dropbox_app_key = None THEN "" ELSE now.dropbox_app_key)
        dropbox_path == IF now.dropbox_reports_path = None
                        THEN "/Pro Tools Plugin Reports"
                        ELSE now.dropbox_reports_path
    IN  IF backend \notin {"local", "dropbox"} \/ interval.raised
        THEN [raised |-> TRUE, config |-> now]
        ELSE [raised |-> FALSE,
              config |-> [machine_name |-> get_text("machine_name", now.machine_name),
                          plugins_path |-> get_text("plugins_path", now.plugins_path),
                          reports_backend |-> backend,
                          dropbox_app_key |-> IF app_key = "" THEN None ELSE app_key,
                          dropbox_reports_path |-> dropbox_path,
                          scan_interval_seconds |-> interval.value]]

\* _config_from_toml: the updated config, or raised for the ValueError of
\* int(value)
_config_from_toml(submitted, now) ==
    LET text_(key, default) == IF submitted[key] = "" THEN default ELSE submitted[key]
        interval == IF submitted.scan_interval_seconds = ""
                    THEN [raised |-> FALSE, value |-> 3600]
                    ELSE ParseNumber(submitted.scan_interval_seconds)
    IN  IF interval.raised
        THEN [raised |-> TRUE, config |-> now]
        ELSE [raised |-> FALSE,
              config |-> [machine_name |-> text_("machine_name", now.machine_name),
                          plugins_path |-> text_("plugins_path", now.plugins_path),
                          reports_backend |->
                              IF submitted.reports_backend = "" THEN "local"
                              ELSE StripLower(submitted.reports_backend),
                          dropbox_app_key |-> IF submitted.dropbox_app_key = "" THEN None
                                              ELSE submitted.dropbox_app_key,
                          dropbox_reports_path |-> None,
                          scan_interval_seconds |-> interval.value]]

\* validate_config(config).ok; the folder /plugins exists, and the reports
\* folder exists (_finalize_save has made it)
validate_config(config) ==
    LET backend == StripLower(config.reports_backend)
    IN  /\ StripLower(config.machine_name) /= ""
        /\ config.plugins_path = "/plugins"
        /\ \/ backend = "local"
           \/ /\ backend = "dropbox"
              /\ config.dropbox_app_key /= None
              /\ config.dropbox_reports_path /= None
        /\ config.scan_interval_seconds > 0

\* the config that load_config reads from the file write_config has written:
\* the Dropbox lines are written for the dropbox backend only
write_config(config) ==
    IF StripLower(config.reports_backend) = "dropbox" THEN config
    ELSE [config EXCEPT !.dropbox_app_key = None, !.dropbox_reports_path = None]

\* do_POST for the paths /save and /import.  write_config raises OSError
\* when the config file cannot be written, and the exception leaves
\* _finalize_save.
DoPost ==
    /\ posts < MaxPosts
    /\ posts' = posts + 1
    /\ \E path \in {"/save", "/import"}, submitted \in SubmittedValues, writable \in BOOLEAN :
          LET parsed == IF path = "/save" THEN _config_from_form(submitted, _config)
                        ELSE _config_from_toml(submitted, _config)
              ok == ~parsed.raised /\ validate_config(parsed.config)
          IN  /\ post' = [passed |-> ok, config |-> parsed.config,
                          before |-> <<_config, config_toml, _on_save>>]
              /\ _config' = IF ok THEN parsed.config ELSE _config
              /\ config_toml' = IF ok /\ writable THEN write_config(parsed.config)
                                ELSE config_toml
              /\ _on_save' = IF ok /\ writable THEN Append(_on_save, parsed.config)
                             ELSE _on_save
    /\ Untouched("settings")

SpecSettings == Idle(Parts) /\ [][DoPost]_vars

(***************************************************************************)
(* What the claims speak about, read off the input reports.                *)
(***************************************************************************)
MachineSet == {reports[i].machine : i \in DOMAIN reports}

PluginsOf(m) == reports[CHOOSE i \in DOMAIN reports : reports[i].machine = m].plugins

\* the PluginKey of a record: bundleId if present, else bundleName
KeyOf(p) == IF p.bundle_id \notin {None, ""} THEN p.bundle_id ELSE p.bundle_name

KeysOn(m) == {KeyOf(PluginsOf(m)[i]) : i \in DOMAIN PluginsOf(m)} \ {None, ""}

UnionKeys == UNION {KeysOn(m) : m \in MachineSet}

\* the record of key k on machine m: the last one of its plugin list
RecordOn(m, k) ==
    LET ps == PluginsOf(m)
        last == CHOOSE i \in DOMAIN ps : KeyOf(ps[i]) = k /\ \A j \in DOMAIN ps : KeyOf(ps[j]) = k => j <= i
    IN  ps[last]

ShortOf(p) == IF p.short_version = <<>> THEN Unknown ELSE p.short_version

BundleOf(p) == IF p.bundle_version = <<>> THEN Unknown ELSE p.bundle_version

BothUnknown(p) == ShortOf(p) = Unknown /\ BundleOf(p) = Unknown

\* the VersionKey of a record that is not BothUnknown
RankOf(p) == IF ShortOf(p) /= Unknown THEN _version_tokens(ShortOf(p)) ELSE _version_tokens(BundleOf(p))

Holders(k) == {m \in MachineSet : k \in KeysOn(m)}

\* the machines that compete for the best version of k
Competitors(k) == {m \in Holders(k) : ~BothUnknown(RecordOn(m, k))}

\* the machines whose VersionKey for k is the greatest
Winners(k) ==
    LET competitors == Competitors(k)
        rank == [m \in competitors |-> RankOf(RecordOn(m, k))]
    IN  {m \in competitors : \A h \in competitors : ~TokensLess(rank[m], rank[h])}

\* the first machine of S in sorted machine-name order
FirstSorted(S) == CHOOSE m \in S : \A h \in S : ~StrLess(h, m)

EntriesFor(m, k) ==
    LET IsFor(update) == update.key = k
    IN  SelectSeq(summary.updates_by_machine[m], IsFor)

\* every UpdateEntry of the summary
AllUpdates == UNION {Range(summary.updates_by_machine[m]) : m \in DOMAIN summary.updates_by_machine}

(***************************************************************************)
(* Claims.                                                                 *)
(***************************************************************************)

\* C1: in every UpdateEntry of compute_update_summary, bestMachine is a machine
\* whose VersionKey is the greatest among the machines that have the key and a
\* known version (so never a machine with both versions unknown); when no
\* machine has an orderable VersionKey, bestMachine and latestVersion are null.
C1_BestIsGreatest ==
    pc = "done" =>
        \A k \in UnionKeys :
            LET winners == Winners(k)
            IN  \A e \in AllUpdates :
                    e.key = k =>
                        IF winners = {}
                        THEN e.best_machine = None /\ e.latest_version = NoLabel
                        ELSE e.best_machine \in winners

\* C1 witness: a machine is outdated against a best machine, two machines compete
C1_Witness ==
    /\ pc = "done"
    /\ \E e \in AllUpdates :
          /\ e.reason = "outdated"
          /\ Cardinality(Competitors(e.key)) >= 2
          /\ e.best_machine /= reports[1].machine

\* C2 (as claimed): on a tie for the greatest VersionKey, bestMachine is the
\* first of the tied machines in sorted machine-name order.
C2_TieSortedFirst ==
    pc = "done" =>
        \A e \in AllUpdates :
            Competitors(e.key) /= {} => e.best_machine = FirstSorted(Winners(e.key))

\* C3 (as claimed): a key whose holders all report both versions unknown gets no
\* UpdateEntry on any machine and no updatesByPlugin entry.
C3_AllUnknownNoEntries ==
    pc = "done" =>
        \A k \in UnionKeys :
            Competitors(k) = {} =>
                /\ \A m \in MachineSet : EntriesFor(m, k) = <<>>
                /\ k \notin DOMAIN summary.updates_by_plugin

\* C3 (amended): a key whose holders all report both versions unknown gets no
\* "outdated" entry; every holder gets exactly one "unknown_version" entry and
\* every machine lacking the key exactly one "missing" entry, all with
\* bestMachine and latestVersion null, and updatesByPlugin has an entry for it.
C3_AllUnknownEntries ==
    pc = "done" =>
        \A k \in UnionKeys :
            Competitors(k) = {} =>
                /\ \A m \in MachineSet :
                      /\ Len(EntriesFor(m, k)) = 1
                      /\ EntriesFor(m, k)[1].reason = (IF m \in Holders(k) THEN "unknown_version" ELSE "missing")
                      /\ EntriesFor(m, k)[1].best_machine = None
                      /\ EntriesFor(m, k)[1].latest_version = NoLabel
                /\ k \in DOMAIN summary.updates_by_plugin

\* C3 witness: machine A alone, its only plugin alpha with unknown versions
C3_Witness ==
    /\ pc = "done"
    /\ MachineSet = {"A"}
    /\ KeysOn("A") = {"alpha"}
    /\ BothUnknown(RecordOn("A", "alpha"))
    /\ Len(summary.updates_by_machine["A"]) = 1

\* C4: for every key and machine, compute_update_summary emits exactly one entry
\* "missing" with currentVersion null if the machine lacks the key; else exactly
\* one "unknown_version" if its VersionKey is absent; else exactly one
\* "outdated" if its VersionKey is strictly less than the winning one; else no
\* entry.  The bestMachine of an entry has no entry for that key.
C4_EntryPerCase ==
    pc = "done" =>
        /\ \A k \in UnionKeys :
              LET holders == Holders(k)
                  winners == Winners(k)
              IN  \A m \in MachineSet :
                    LET entries == EntriesFor(m, k)
                        one(reason) == Len(entries) = 1 /\ entries[1].reason = reason
                    IN  IF m \notin holders THEN one("missing") /\ entries[1].current_version = NoLabel
                        ELSE IF BothUnknown(RecordOn(m, k)) THEN one("unknown_version")
                        ELSE IF m \notin winners THEN one("outdated")
                        ELSE entries = <<>>
        /\ \A e \in AllUpdates : e.best_machine /= None => EntriesFor(e.best_machine, e.key) = <<>>
        /\ \A e \in AllUpdates : e.key \in UnionKeys

\* C4 witness: three machines, one outdated, one lacking the key, one the best
C4_Witness ==
    /\ pc = "done"
    /\ \E k \in UnionKeys : \E a, b, c \in MachineSet :
          /\ EntriesFor(a, k) /= <<>> /\ EntriesFor(a, k)[1].reason = "outdated"
          /\ EntriesFor(b, k) /= <<>> /\ EntriesFor(b, k)[1].reason = "missing"
          /\ EntriesFor(c, k) = <<>>

Scenario1 ==
    /\ MachineSet = {"A", "B"}
    /\ PluginsOf("A") = <<Plugin("Alpha", "alpha", V1_0, V1)>>
    /\ PluginsOf("B") = <<Plugin("Alpha", "alpha", V2_0, V2)>>

Scenario1Diff ==
    \E i \in DOMAIN diff.version_mismatches :
        /\ diff.version_mismatches[i].key = "alpha"
        /\ diff.version_mismatches[i].versions =
              [m \in {"A", "B"} |->
                  IF m = "A" THEN [short_version |-> V1_0, bundle_version |-> V1]
                  ELSE [short_version |-> V2_0, bundle_version |-> V2]]

Scenario1Entry(latest) ==
    /\ Len(EntriesFor("A", "alpha")) = 1
    /\ EntriesFor("A", "alpha")[1].reason = "outdated"
    /\ EntriesFor("A", "alpha")[1].latest_version = latest
    /\ EntriesFor("A", "alpha")[1].best_machine = "B"

\* C5 (as claimed): in Scenario 1 compute_diff reports alpha as a version
\* mismatch with both machines' pairs and updatesByMachine[A] has exactly one
\* entry for alpha: outdated, latestVersion "2.0", bestMachine "B".
C5_Scenario1 ==
    (pc = "done" /\ Scenario1) => (Scenario1Diff /\ Scenario1Entry(V2_0))

\* C5 (amended): the same, with latestVersion "2.0 (2)", the label of B's record.
C5_Scenario1Label ==
    (pc = "done" /\ Scenario1) =>
        (Scenario1Diff /\ Scenario1Entry(<<"2", ".", "0", " ", "(", "2", ")">>))

\* C5 witness: Scenario 1 has been summarised, B's report first in the dict
C5_Witness == pc = "done" /\ Scenario1 /\ reports[1].machine = "B"

DiffCore(d) ==
    [missing |-> d.missing, version_mismatches |-> d.version_mismatches,
     unknown_versions |-> d.unknown_versions, counts |-> d.counts]

\* the dicts that hold the pairs of reports in another iteration order
Reorderings == {[i \in DOMAIN reports |-> reports[p[i]]] : p \in Perms(DOMAIN reports)}

\* C6 (as claimed): compute_diff of the same machine -> snapshot pairs in any
\* other iteration order returns the same missing, versionMismatches,
\* unknownVersions and counts (whatever order the set of keys is iterated in).
C6_OrderIndependent ==
    pc = "diffed" =>
        \A r \in Reorderings :
            \E key_order \in Perms(UnionKeys) : DiffCore(compute_diff(r, key_order)) = DiffCore(diff)

\* C7 (as claimed): a missing entry for key k carries the bundleName and bundleId
\* of k's record on the first machine, in sorted machine-name order, that has k.
C7_SampleFromSortedFirst ==
    pc = "diffed" =>
        \A m \in MachineSet : \A i \in DOMAIN diff.missing[m] :
            LET e == diff.missing[m][i]
                first == RecordOn(FirstSorted(Holders(e.key)), e.key)
            IN  e.bundle_name = first.bundle_name /\ e.bundle_id = first.bundle_id

Listed(list, k) == \E i \in DOMAIN list : list[i].key = k

\* C8: for every key k of the union and every machine m of diff.machines exactly
\* one holds: m lacks k and k is listed in missing[m] only; m has k with both
\* versions unknown and k is listed in unknownVersions[m] only; m has k with a
\* known version and k is in neither list.  diff.machines names every machine.
C8_Complete ==
    pc = "diffed" =>
        /\ Range(diff.machines) = MachineSet
        /\ \A k \in UnionKeys : \A m \in Range(diff.machines) :
              LET inMissing == Listed(diff.missing[m], k)
                  inUnknown == Listed(diff.unknown_versions[m], k)
              IN  IF m \notin Holders(k) THEN inMissing /\ ~inUnknown
                  ELSE IF BothUnknown(RecordOn(m, k)) THEN inUnknown /\ ~inMissing
                  ELSE ~inMissing /\ ~inUnknown

\* C8 witness: one key is missing on a machine, unknown on another, known on a third
C8_Witness ==
    /\ pc = "diffed"
    /\ \E k \in UnionKeys : \E a, b, c \in MachineSet :
          /\ Listed(diff.missing[a], k)
          /\ Listed(diff.unknown_versions[b], k)
          /\ c \in Holders(k) /\ ~BothUnknown(RecordOn(c, k))

PairOf(p) == [short_version |-> ShortOf(p), bundle_version |-> BundleOf(p)]

Mismatched(k) ==
    /\ Cardinality(Holders(k)) >= 2
    /\ Cardinality({PairOf(RecordOn(m, k)) : m \in Holders(k)}) > 1

\* C9: versionMismatches has exactly one entry for each key present on at least
\* two machines with more than one distinct (shortVersion, bundleVersion) pair
\* and none for any other key; an entry's versions map holds the pair of every
\* machine that has the key and of no other; entries are in strictly ascending
\* key order.
C9_Mismatches ==
    pc = "diffed" =>
        LET mm == diff.version_mismatches
        IN  /\ {mm[i].key : i \in DOMAIN mm} = {k \in UnionKeys : Mismatched(k)}
            /\ \A i \in DOMAIN mm :
                  /\ DOMAIN mm[i].versions = Holders(mm[i].key)
                  /\ \A m \in Holders(mm[i].key) : mm[i].versions[m] = PairOf(RecordOn(m, mm[i].key))
            /\ \A i \in 1..(Len(mm) - 1) : StrLess(mm[i].key, mm[i + 1].key)

\* C9 witness: both keys are version mismatches of the two machines
C9_Witness ==
    /\ pc = "diffed"
    /\ Len(diff.version_mismatches) = 2
    /\ reports[1].machine = "B"

\* C10: unknownVersions[m] lists exactly the keys present on m whose versions are
\* both unknown, counts[m].unknownVersions is the length of unknownVersions[m]
\* and counts[m].total is the number of distinct plugin keys on m.
C10_UnknownAndCounts ==
    pc = "diffed" =>
        \A m \in MachineSet :
            LET unknown == diff.unknown_versions[m]
                keys == {k \in KeysOn(m) : BothUnknown(RecordOn(m, k))}
            IN  /\ {unknown[i].key : i \in DOMAIN unknown} = keys
                /\ Len(unknown) = Cardinality(keys)
                /\ diff.counts[m].unknown_versions = Len(unknown)
                /\ diff.counts[m].total = Cardinality(KeysOn(m))

\* C10 witness: a machine lists one key twice, the last record with unknown versions
C10_Witness ==
    /\ pc = "diffed"
    /\ \E m \in MachineSet :
          /\ Len(PluginsOf(m)) = 2
          /\ diff.counts[m].total = 1
          /\ diff.counts[m].unknown_versions = 1
          /\ ~BothUnknown(PluginsOf(m)[1])

\* the first position at which two token sequences differ, 0 if one is a
\* prefix of the other
FirstDifference(a, b) ==
    LET common == 1..(IF Len(a) < Len(b) THEN Len(a) ELSE Len(b))
        differing == {i \in common : a[i] /= b[i]}
    IN  IF differing = {} THEN 0 ELSE CHOOSE i \in differing : \A j \in differing : i <= j

\* lexical order of two lower-case words
Lexical(x, y) ==
    \E i \in 1..Len(y) :
        /\ \A j \in 1..(i - 1) : j <= Len(x) /\ x[j] = y[j]
        /\ \/ i > Len(x)
           \/ i <= Len(x) /\ IndexOf(Lowers, x[i]) < IndexOf(Lowers, y[i])

\* a sorts before b: a proper prefix is less; otherwise the first differing
\* position decides, a number before a word, numbers as integers, words lexically
Before(a, b) ==
    LET i == FirstDifference(a, b)
    IN  IF i = 0 THEN Len(a) < Len(b)
        ELSE IF a[i].kind /= b[i].kind THEN a[i].kind = 0
        ELSE IF a[i].kind = 0 THEN a[i].num < b[i].num
        ELSE Lexical(a[i].str, b[i].str)

Compared(l, r) == order /= NoResult /\ left = l /\ right = r

\* C11: the comparison of two token sequences is the order in which a proper
\* prefix is less and the first differing position decides otherwise (a
\* numeric token before a textual one, numeric tokens as integers, textual
\* tokens as lower-case strings); exactly one of less, greater, equal holds of
\* any two token sequences; "2.0" > "1.9.9", "10" > "9" and "v10" > "v9".
C11_TokenOrder ==
    order /= NoResult =>
        /\ order.less = Before(order.left_tokens, order.right_tokens)
        /\ order.greater = Before(order.right_tokens, order.left_tokens)
        /\ Cardinality({c \in {"less", "greater", "equal"} : order[c]}) = 1
        /\ \A i \in DOMAIN order.left_tokens :
               order.left_tokens[i].kind = 1 => order.left_tokens[i].str = LowerRun(order.left_tokens[i].str)
        /\ Compared(V2_0, <<"1", ".", "9", ".", "9">>) => order.greater
        /\ Compared(<<"1", "0">>, <<"9">>) => order.greater
        /\ Compared(<<"v", "1", "0">>, <<"v", "9">>) => order.greater

C11_Witness ==
    /\ Compared(<<"1", "a">>, V1_0)
    /\ order.greater
    /\ order.left_tokens = <<NumToken(1), TextToken(<<"a">>)>>

\* the label of a record: null when both versions are unknown, the bundle
\* version when only the short one is unknown, the short version when the
\* bundle version is unknown or the same, otherwise "short (bundle)"
LabelOf(p) ==
    IF BothUnknown(p) THEN NoLabel
    ELSE IF ShortOf(p) = Unknown THEN BundleOf(p)
    ELSE IF BundleOf(p) = Unknown \/ BundleOf(p) = ShortOf(p) THEN ShortOf(p)
    ELSE ShortOf(p) \o <<" ", "(">> \o BundleOf(p) \o <<")">>

\* C12: every UpdateEntry of a machine carries as currentVersion the label of
\* the machine's own record of the key (null when the machine has none) and as
\* latestVersion the label of the record of its bestMachine (null when there
\* is no bestMachine), the label being null for unknown/unknown, the bundle
\* version when only the short one is unknown, the short one when the bundle
\* version is unknown or equal, and "short (bundle)" otherwise.
C12_EntryLabels ==
    pc = "done" =>
        \A m \in MachineSet :
            \A e \in Range(summary.updates_by_machine[m]) :
                /\ e.current_version =
                       (IF e.key \in KeysOn(m) THEN LabelOf(RecordOn(m, e.key)) ELSE NoLabel)
                /\ e.latest_version =
                       (IF e.best_machine = None THEN NoLabel
                        ELSE LabelOf(RecordOn(e.best_machine, e.key)))

C12_Witness ==
    /\ pc = "done"
    /\ \E e \in Range(summary.updates_by_machine["A"]) :
           /\ e.current_version = V1_0 \o <<" ", "(">> \o <<"1", "2", "3">> \o <<")">>
           /\ e.latest_version = V1_2_3
           /\ e.best_machine = "B"
    /\ RecordOn("B", "alpha").bundle_version = V1_2_3

\* C13: updatesByMachine[machine] holds at most one UpdateEntry per plugin
\* key, and its entries are in strictly ascending order of the plugin key,
\* whatever the order of the plugin names.
C13_AscendingKeys ==
    pc = "done" =>
        \A m \in MachineSet :
            LET list == summary.updates_by_machine[m]
            IN  /\ \A k \in UnionKeys : Len(EntriesFor(m, k)) <= 1
                /\ \A i \in DOMAIN list : \A j \in DOMAIN list :
                       i < j => StrLess(list[i].key, list[j].key)

\* machine C gets the entries of both keys, by key and against the names
C13_Witness ==
    /\ pc = "done"
    /\ Len(summary.updates_by_machine["C"]) = 2
    /\ summary.updates_by_machine["C"][1].key = "alpha"
    /\ summary.updates_by_machine["C"][1].bundle_name = "beta"
    /\ summary.updates_by_machine["C"][2].bundle_name = "Alpha"
    /\ reports[1].machine = "C"

\* the machines that have an UpdateEntry for k
Updated(k) == {m \in MachineSet : EntriesFor(m, k) /= <<>>}

\* C14: updatesByPlugin has an entry for k iff some machine has an
\* UpdateEntry for k; the machines list of that entry has one record per such
\* UpdateEntry, in sorted machine-name order, with the currentVersion and the
\* reason of the UpdateEntry; its latestVersion and bestMachine are those of
\* the UpdateEntries for k.
C14_PluginAggregate ==
    pc = "done" =>
        /\ DOMAIN summary.updates_by_plugin = {k \in UnionKeys : Updated(k) /= {}}
        /\ \A k \in DOMAIN summary.updates_by_plugin :
               LET entry == summary.updates_by_plugin[k]
                   ordered == Sorted(Updated(k))
               IN  /\ Len(entry.machines) = Len(ordered)
                   /\ \A i \in DOMAIN ordered :
                          LET update == EntriesFor(ordered[i], k)[1]
                          IN  /\ Len(EntriesFor(ordered[i], k)) = 1
                              /\ entry.machines[i] =
                                     [machine |-> ordered[i],
                                      current_version |-> update.current_version,
                                      reason |-> update.reason]
                              /\ entry.latest_version = update.latest_version
                              /\ entry.best_machine = update.best_machine

\* key alpha: B is outdated and C lacks it, and the reports were loaded C first
C14_Witness ==
    /\ pc = "done"
    /\ "alpha" \in DOMAIN summary.updates_by_plugin
    /\ Len(summary.updates_by_plugin["alpha"].machines) = 2
    /\ summary.updates_by_plugin["alpha"].machines[1].machine = "B"
    /\ summary.updates_by_plugin["alpha"].machines[1].reason = "outdated"
    /\ summary.updates_by_plugin["alpha"].machines[2].reason = "missing"
    /\ reports[1].machine = "C"
    /\ reports[2].machine = "B"

\* the lines of the printed text that start with the given words
LinesStarting(words) ==
    LET Starts(line) == line[1] = words
    IN  SelectSeq(text, Starts)

\* the machines of the diff, in its order, whose list is not empty
MachinesListed(lists) ==
    LET NonEmpty(m) == lists[m] /= <<>>
    IN  SelectSeq(diff.machines, NonEmpty)

\* the section of a line: header, counts, missing, mismatches, unknown versions
SectionOf(line) ==
    IF line[1] = "Plugin sync diff summary:" THEN 0
    ELSE IF line[1] = "- Missing on " THEN 2
    ELSE IF line[1] = "- Version mismatches: " THEN 3
    ELSE IF line[1] = "- Unknown versions on " THEN 4
    ELSE 1

\* C15: format_diff_summary returns "No reports found." when diff.machines is
\* empty; otherwise the header, one count line per machine in the order of
\* diff.machines, a "Missing on" line for exactly the machines with a
\* non-empty missing list, one "Version mismatches" line iff there are
\* mismatches, an "Unknown versions on" line for exactly the machines with a
\* non-empty unknown list, the sections in this order.
C15_SummaryLines ==
    pc = "printed" =>
        IF diff.machines = <<>> THEN text = << <<"No reports found.">> >>
        ELSE LET n == Len(diff.machines)
                 missing == MachinesListed(diff.missing)
                 unknown == MachinesListed(diff.unknown_versions)
             IN  /\ text[1] = <<"Plugin sync diff summary:">>
                 /\ Len(text) = 1 + n + Len(missing) + Len(unknown)
                                 + (IF diff.version_mismatches /= <<>> THEN 1 ELSE 0)
                 /\ \A i \in 1..n :
                        text[1 + i] = <<"- ", diff.machines[i], ": ",
                                        ToString(diff.counts[diff.machines[i]].total), " plugins, ",
                                        ToString(diff.counts[diff.machines[i]].unknown_versions),
                                        " unknown versions">>
                 /\ LinesStarting("- Missing on ") =
                        [i \in DOMAIN missing |->
                            <<"- Missing on ", missing[i], ": ", ToString(Len(diff.missing[missing[i]]))>>]
                 /\ LinesStarting("- Version mismatches: ") =
                        (IF diff.version_mismatches /= <<>>
                         THEN << <<"- Version mismatches: ", ToString(Len(diff.version_mismatches))>> >>
                         ELSE <<>>)
                 /\ LinesStarting("- Unknown versions on ") =
                        [i \in DOMAIN unknown |->
                            <<"- Unknown versions on ", unknown[i], ": ",
                              ToString(Len(diff.unknown_versions[unknown[i]]))>>]
                 /\ \A i \in DOMAIN text : \A j \in DOMAIN text :
                        i < j => SectionOf(text[i]) <= SectionOf(text[j])

\* a text with the lines of every section, and a machine without a "Missing
\* on" line before one with it
C15_Witness ==
    /\ pc = "printed"
    /\ Len(diff.machines) = 3
    /\ LinesStarting("- Missing on ") = << <<"- Missing on ", "C", ": ", "1">> >>
    /\ LinesStarting("- Version mismatches: ") /= <<>>
    /\ LinesStarting("- Unknown versions on ") /= <<>>

\* the threads that are inside perform_scan
Scanning == {t \in Threads : call[t] = "scanning"}

\* C16: whatever the interleaving of the calls of _perform_scan by the main
\* thread and the Timer threads, at most one of them is inside perform_scan,
\* and the one that is holds the scan lock.
C16_SingleFlight ==
    /\ Cardinality(Scanning) <= 1
    /\ Scanning /= {} => scan_lock

\* a call finds the lock held while another thread is inside perform_scan
C16_Witness ==
    \E t \in Threads : \E u \in Threads :
        call[t] = "scanning" /\ call[u] = "pending"

\* C17: a trigger that found the scan lock held is served by the pending flag:
\* once every call of _perform_scan has returned, a perform_scan cycle has
\* started after that trigger arrived.
C17_TriggerServed ==
    (\A t \in Threads : call[t] = "idle") => ~owed

\* the threads of the menu bar app that are inside perform_scan
MenuScanning ==
    {w \in Workers : worker[w].at = "scanning"} \cup (IF opening.at = "scanning" THEN {0} ELSE {})

\* C18: in MenuBarApp no two executions of perform_scan overlap, whether they
\* are started by a scan worker or by the Open Report handler.
C18_NoOverlap == Cardinality(MenuScanning) <= 1

\* C19: perform_scan publishes the local snapshot before it loads the
\* snapshot set: it returns a diff and a summary that are not None, the diff
\* lists the local machine, and the latest report, the diff and the summary
\* files exist afterwards; diff = None comes only with an empty snapshot set,
\* with summary = None and update_count = 0.
C19_PublishedBeforeLoad ==
    step = "returned" =>
        /\ scan_result.diff /= NoResult
        /\ scan_result.summary /= NoResult
        /\ machine_name \in scan_result.diff.machines
        /\ {LatestReportName(machine_name), DIFF_FILENAME, SUMMARY_FILENAME} \subseteq DOMAIN files
        /\ scan_result.diff = NoResult =>
               loaded = {} /\ scan_result.summary = NoResult /\ scan_result.update_count = 0

\* the (major, minor, patch) of the N.N.N that starts at position i, <<>> if
\* none starts there
TripleAt(value, i) ==
    LET e1 == RunEnd(value, i, TRUE)
        e2 == RunEnd(value, e1 + 2, TRUE)
        e3 == RunEnd(value, e2 + 2, TRUE)
    IN  IF /\ e1 >= i /\ e1 + 1 <= Len(value) /\ value[e1 + 1] = "."
           /\ e2 >= e1 + 2 /\ e2 + 1 <= Len(value) /\ value[e2 + 1] = "."
           /\ e3 >= e2 + 2
        THEN <<IntOf(SubSeq(value, i, e1)), IntOf(SubSeq(value, e1 + 2, e2)),
               IntOf(SubSeq(value, e2 + 2, e3))>>
        ELSE <<>>

\* the triple of the first N.N.N of the text, (0, 0, 0) if it has none
FirstTriple(value) ==
    LET starts == {i \in DOMAIN value : TripleAt(value, i) /= <<>>}
    IN  IF starts = {} THEN <<0, 0, 0>>
        ELSE TripleAt(value, CHOOSE i \in starts : \A j \in starts : i <= j)

\* C20: is_update_available(current, latest) is true exactly when the triple
\* of the first N.N.N of latest is lexicographically greater than that of
\* current, (0, 0, 0) standing for a text without N.N.N; ("1.0.0", "1.0.1")
\* gives true and ("1.2.0", "1.1.9") gives false.
C20_UpdateAvailable ==
    available /= NoResult =>
        /\ ~available.raised
        /\ available.value <=>
               \/ FirstTriple(latest_release)[1] > FirstTriple(current_release)[1]
               \/ /\ FirstTriple(latest_release)[1] = FirstTriple(current_release)[1]
                  /\ FirstTriple(latest_release)[2] > FirstTriple(current_release)[2]
               \/ /\ FirstTriple(latest_release)[1] = FirstTriple(current_release)[1]
                  /\ FirstTriple(latest_release)[2] = FirstTriple(current_release)[2]
                  /\ FirstTriple(latest_release)[3] > FirstTriple(current_release)[3]
        /\ /\ current_release = <<"1", ".", "0", ".", "0">>
           /\ latest_release = <<"1", ".", "0", ".", "1">>
           => available.value
        /\ /\ current_release = <<"1", ".", "2", ".", "0">>
           /\ latest_release = <<"1", ".", "1", ".", "9">>
           => ~available.value

\* C21: a POST /save or /import whose config fails parsing or validate_config
\* leaves the server's config, the config file and on_save's calls as they
\* were; one that passes makes the server's config, the persisted config and
\* the argument of one more on_save call the same updated config.
C21_AllOrNothing ==
    post /= NoResult =>
        IF post.passed
        THEN /\ _config = post.config
             /\ config_toml = post.config
             /\ _on_save = Append(post.before[3], post.config)
        ELSE <<_config, config_toml, _on_save>> = post.before

\* C22: over any sequence of write_report and prune_reports calls, no file
\* whose name ends in "__latest.json" or starts with "diff__" or "summary__"
\* is moved to the archive or deleted, every file moved or deleted is a
\* "<machine>__<timestamp>.json" report, and prune_reports deletes a report
\* only if prune_days > 0 and the report is older than prune_days days.
C22_OnlyTimestampedGo ==
    \A g \in gone :
        LET n == g.file
            begins(x) == Len(n) >= Len(x) /\ SubSeq(n, 1, Len(x)) = x
            ends(x) == Len(n) >= Len(x) /\ SubSeq(n, Len(n) - Len(x) + 1, Len(n)) = x
        IN  /\ ~ends(<<"_", "_", "l", "a", "t", "e", "s", "t", ".", "j", "s", "o", "n">>)
            /\ ~begins(<<"d", "i", "f", "f", "_", "_">>)
            /\ ~begins(<<"s", "u", "m", "m", "a", "r", "y", "_", "_">>)
            /\ \E m \in { <<"A">>, <<"d", "i", "f", "f">> }, d \in 0..9 :
                   n = m \o <<"_", "_", Digits[d + 1], ".", "j", "s", "o", "n">>
            /\ g.by = "unlink" => g.prune_days > 0 /\ g.age > g.prune_days

\* a report has been moved to the archive and a report has been deleted, and
\* the latest report, the diff and the old report of machine diff are in place
C22_Witness ==
    /\ \E g \in gone : g.by = "move"
    /\ \E g \in gone : g.by = "unlink"
    /\ {LatestReportName(<<"A">>), DIFF_FILENAME, SUMMARY_FILENAME,
        <<"d", "i", "f", "f", "_", "_", "0", ".", "j", "s", "o", "n">>} \subseteq DOMAIN reports_dir

\* C23 as stated: the triggers that arrive while one cycle runs cause at most
\* one additional cycle, so there are never more additional cycles than there
\* are cycles during which a trigger found the scan lock held
C23_OneExtraCycle == reruns <= Cardinality(met)

\* C25: when perform_scan raises during a daemon cycle, _perform_scan goes on
\* to its test and runs the cycle again if the pending flag is set, and the
\* scan lock is held by calls inside the loop only: once every call of
\* _perform_scan has returned the lock is free, so that the next trigger
\* starts a cycle.
C25_FailureKeepsGoing ==
    /\ [](scan_lock <=> \E t \in Threads :
                 call[t] \in {"clear", "scan", "scanning", "check", "failed", "release"})
    /\ [][\A t \in Threads :
             (call[t] = "failed" /\ call'[t] /= "failed") =>
                 call'[t] = (IF pending THEN "clear" ELSE "release")]_vars

\* a cycle has failed while the pending flag is set
C25_Witness ==
    \E t \in Threads : call[t] = "failed" /\ pending /\ scan_lock


\* C24: in MenuBarApp a scan request that found the scan lock held is not
\* lost: once every _on_scan has returned and every scan worker has ended, a
\* scan worker has begun after that request arrived.
C24_RequestServed ==
    ((\A c \in Callers : caller[c] = "idle") /\ (\A w \in Workers : worker[w] = NoThread))
        => ~unserved


Fired == {i \in DOMAIN timers : timers[i] \in {"expired", "ran"}}

\* C26 as stated: a DebouncedRunner has at most one scheduled timer at any
\* time; of a burst of triggers, each arriving before the previous timer
\* expires, only the timer of the last trigger runs the action, once; after
\* cancel() no timer is scheduled and the action is not called until the next
\* trigger.
C26_DebounceAndCancel ==
    /\ [](Cardinality({i \in DOMAIN timers : timers[i] = "waiting"}) <= 1)
    /\ [](bursts = Cardinality(Fired) + dropped + (IF Scheduled THEN 1 ELSE 0))
    /\ [][\A i \in DOMAIN timers :
             (timers[i] = "waiting" /\ timers'[i] = "expired") => i = Len(timers)]_vars
    /\ [](quiet => ~Scheduled)
    /\ [][\A i \in DOMAIN timers :
             (timers[i] = "expired" /\ timers'[i] = "ran") => ~quiet]_vars

\* C26, amended: at most one scheduled timer at any time; of a burst of
\* triggers only the timer of the last one runs the action, once; after
\* cancel() no timer is scheduled and no timer that cancel() or a trigger
\* stopped ever calls the action, but a timer that had expired before cancel()
\* may still call it.
C26_DebounceAndCancelWaiting ==
    /\ [](Cardinality({i \in DOMAIN timers : timers[i] = "waiting"}) <= 1)
    /\ [](bursts = Cardinality(Fired) + dropped + (IF Scheduled THEN 1 ELSE 0))
    /\ [][\A i \in DOMAIN timers :
             (timers[i] = "waiting" /\ timers'[i] = "expired") => i = Len(timers)]_vars
    /\ [](quiet => ~Scheduled)
    /\ [][\A i \in DOMAIN timers : timers[i] = "cancelled" => timers'[i] = "cancelled"]_vars

\* a burst of two triggers has run the action once, a later timer was stopped
\* by cancel() and nothing is scheduled
C26_Witness ==
    /\ Len(timers) >= 3
    /\ timers[1] = "cancelled" /\ timers[2] = "ran" /\ timers[3] = "cancelled"
    /\ bursts = 2 /\ dropped = 1
    /\ quiet


\* the keys of the entries of a list
KeysIn(entries) == {entries[i].key : i \in DOMAIN entries}

\* the keys of the update entries of a list that have the given reason
KeysWithReason(entries, reason) ==
    {entries[i].key : i \in {j \in DOMAIN entries : entries[j].reason = reason}}

\* C27: for one set of reports compute_diff and compute_update_summary agree:
\* a key is listed in diff.missing[m] exactly when updates_by_machine[m] has an
\* entry for it with the reason "missing", and in diff.unknown_versions[m]
\* exactly when updates_by_machine[m] has an entry for it with the reason
\* "unknown_version".
C27_DiffAndSummaryAgree ==
    pc = "done" =>
        \A m \in Range(diff.machines) :
            /\ KeysIn(diff.missing[m]) = KeysWithReason(summary.updates_by_machine[m], "missing")
            /\ KeysIn(diff.unknown_versions[m])
                  = KeysWithReason(summary.updates_by_machine[m], "unknown_version")

\* both computations are done; one machine misses a plugin and one lists a
\* plugin with no known version
C27_Witness ==
    /\ pc = "done"
    /\ \E m \in Range(diff.machines) : diff.missing[m] /= <<>>
    /\ \E m \in Range(diff.machines) : diff.unknown_versions[m] /= <<>>


\* C30: the plugin records of a report are reduced to a mapping keyed by the
\* bundle id if present, else the bundle name; of several records with one
\* key the last one is the one compute_diff and compute_update_summary use;
\* a record with neither adds no key to the union of keys and is not counted
\* in counts[m].total.
C30_KeyedLastWins ==
    pc = "done" =>
        \A m \in MachineSet :
            /\ diff.counts[m].total = Cardinality(KeysOn(m))
            /\ KeysIn(diff.missing[m]) = UnionKeys \ KeysOn(m)
            /\ KeysIn(diff.unknown_versions[m]) \cup KeysIn(summary.updates_by_machine[m]) \subseteq UnionKeys
            /\ KeysIn(diff.version_mismatches) \cup DOMAIN summary.updates_by_plugin \subseteq UnionKeys
            /\ \A k \in KeysOn(m) :
                  LET used == RecordOn(m, k)
                      entries == EntriesFor(m, k)
                  IN  /\ k \in KeysIn(diff.unknown_versions[m]) <=> BothUnknown(used)
                      /\ \A i \in DOMAIN entries :
                            entries[i].current_version = _version_label(ShortOf(used), BundleOf(used))
                      /\ \A i \in DOMAIN diff.version_mismatches :
                            diff.version_mismatches[i].key = k =>
                                diff.version_mismatches[i].versions[m] = VersionPair(used)

\* one machine lists a record with neither bundle id nor bundle name, one
\* lists two records with one key, and both computations are done
C30_Witness ==
    /\ pc = "done"
    /\ \E m \in MachineSet : \E i \in DOMAIN PluginsOf(m) : KeyOf(PluginsOf(m)[i]) \in {None, ""}
    /\ \E m \in MachineSet : Len(PluginsOf(m)) = 2 /\ Cardinality(KeysOn(m)) = 1
    /\ \E m \in MachineSet : summary.updates_by_machine[m] /= <<>>


\* C28: when two machines run perform_scan concurrently on one shared reports
\* folder, then once both cycles have finished the stored diff and the stored
\* summary list both machines.
C28_BothMachinesListed ==
    (\A m \in ScanMachines : scans[m].at = "idle" /\ scans[m].begun >= 1)
        => (shared_diff = ScanMachines /\ shared_summary = ScanMachines)

====
